---------------------------- MODULE Spec2Model ----------------------------
(***************************************************************************)
(* A model of path-unified (src/src/path.js), the ESM copy of Node's path  *)
(* module: the POSIX and the Windows path engines.                          *)
(*                                                                          *)
(* A JavaScript string is a sequence of one-character strings, so that      *)
(* "/a" is <<"/", "a">>.  The operators keep the 0-based indices of the     *)
(* source: charCodeAt(s, i) is s.charCodeAt(i), slice(s, a, b) is           *)
(* s.slice(a, b).  Every loop of the source is a RECURSIVE operator whose   *)
(* parameters are the loop's variables.                                     *)
(***************************************************************************)
EXTENDS Integers, Sequences, FiniteSets, TLC

VARIABLES
  pc,              \* "call": the arguments are chosen; "return": op has run
  op,              \* the operation that ran ("" before the call)
  args,            \* the argument list of the call, a sequence of JS values
  ret,             \* the completion of the call
  platformIsWin32, \* path.js:40, the host platform flag
  cwd,             \* what process.cwd() returns
  env              \* process.env: whether it exists, and its '=X:' drive entries

vars == <<pc, op, args, ret, platformIsWin32, cwd, env>>

---------------------------------------------------------------------------
(* Bounds of the model.                                                    *)

\* longest tail of a single path argument (SpecPath)
MaxPathLen == 5

\* longest argument of join (SpecJoin)
MaxJoinLen == 3

\* longest argument of posix.relative (SpecPosRelative)
MaxRelativeLen == 3

\* longest tail of an argument of win32.relative (SpecWinRelative)
MaxWinRelativeLen == 2

\* most arguments of resolve (SpecResolve)
MaxArgs == 2

\* longest path argument of basename (SpecBasename)
MaxBasenameLen == 3

\* longest suffix argument of basename (SpecBasename)
MaxSuffixLen == 2

---------------------------------------------------------------------------
(* Character constants (path.js:14-24) and JavaScript string primitives.   *)

CHAR_DOT == "."
CHAR_FORWARD_SLASH == "/"
CHAR_BACKWARD_SLASH == "\\"
CHAR_COLON == ":"
CHAR_QUESTION_MARK == "?"

UpperCaseLetters == <<"A", "B", "C", "D", "E", "F", "G", "H", "I", "J", "K", "L", "M",
                      "N", "O", "P", "Q", "R", "S", "T", "U", "V", "W", "X", "Y", "Z">>
LowerCaseLetters == <<"a", "b", "c", "d", "e", "f", "g", "h", "i", "j", "k", "l", "m",
                      "n", "o", "p", "q", "r", "s", "t", "u", "v", "w", "x", "y", "z">>

\* the value of charCodeAt past the end of the string
NaN == "NaN"

charCodeAt(s, i) == IF i >= 0 /\ i < Len(s) THEN s[i + 1] ELSE NaN

\* s.slice(a, b) for 0 <= a; b is clamped to the length
slice(s, a, b) == SubSeq(s, a + 1, IF b < Len(s) THEN b ELSE Len(s))

\* s.slice(a); a negative a counts from the end
sliceFrom(s, a) ==
  LET from == IF a >= 0 THEN a ELSE (IF Len(s) + a > 0 THEN Len(s) + a ELSE 0)
  IN  SubSeq(s, from + 1, Len(s))

RECURSIVE lastIndexOfFrom(_, _, _)
lastIndexOfFrom(s, c, i) ==
  IF i < 0 THEN -1
  ELSE IF s[i + 1] = c THEN i
  ELSE lastIndexOfFrom(s, c, i - 1)

\* the index of the first c in s instead of the last
lastIndexOfAsFirst(s, c) == IF \E k \in 1..Len(s) : s[k] = c
                            THEN (CHOOSE k \in 1..Len(s) :
                                    s[k] = c /\ \A j \in 1..(k - 1) : s[j] # c) - 1
                            ELSE -1

\* s.lastIndexOf(c) for a one-character c
lastIndexOf(s, c) == lastIndexOfFrom(s, c, Len(s) - 1)

RECURSIVE indexOfFrom(_, _, _)
indexOfFrom(s, c, i) ==
  IF i >= Len(s) THEN -1
  ELSE IF s[i + 1] = c THEN i
  ELSE indexOfFrom(s, c, i + 1)

\* s.indexOf(c) for a one-character c
indexOf(s, c) == indexOfFrom(s, c, 0)

toLowerCaseChar(c) ==
  IF \E k \in 1..26 : UpperCaseLetters[k] = c
  THEN LowerCaseLetters[CHOOSE k \in 1..26 : UpperCaseLetters[k] = c]
  ELSE c

\* s.toLowerCase()
toLowerCase(s) == [k \in 1..Len(s) |-> toLowerCaseChar(s[k])]

---------------------------------------------------------------------------
(* Character classifiers.                                                  *)

\* isPathSeparator that knows the backslash only
isBackslashOnly(code) == code = CHAR_BACKWARD_SLASH

isPathSeparator(code) == code = CHAR_FORWARD_SLASH \/ code = CHAR_BACKWARD_SLASH

isPosixPathSeparator(code) == code = CHAR_FORWARD_SLASH

isWindowsDeviceRoot(code) ==
  \E k \in 1..26 : UpperCaseLetters[k] = code \/ LowerCaseLetters[k] = code

\* The separator predicate that normalizeString is called with: the callers
\* pass isPosixPathSeparator with '/' and isPathSeparator with '\'.
isSeparatorFor(separator, code) ==
  IF separator = CHAR_FORWARD_SLASH THEN isPosixPathSeparator(code)
  ELSE isPathSeparator(code)

---------------------------------------------------------------------------
(* JavaScript values and completions.                                       *)

\* a string value
Str(s) == [type |-> "string", str |-> s]

\* a value that is not a string (a number)
NotAString == [type |-> "number", str |-> <<>>]

\* a missing argument
Undefined == [type |-> "undefined", str |-> <<>>]

\* a plain object with the string properties of fields (a function from
\* the names of the properties that are set to their values)
Obj(fields) == [type |-> "object", str |-> <<>>, fields |-> fields]

\* a boolean
Bool(b) == [type |-> "boolean", str |-> <<>>, value |-> b]

\* args[k], 1-based; undefined past the end of the argument list
Arg(argv, k) == IF k <= Len(argv) THEN argv[k] ELSE Undefined

\* validateString(value, name) passes iff typeof value === 'string'
validateString(value) == value.type = "string"

\* validateObject(value, name) passes iff value is a plain object
validateObject(value) == value.type = "object"

Return(v) == [kind |-> "return", value |-> v]

Throw(e) == [kind |-> "throw", value |-> e]

\* process.env: defined is FALSE in the browser shim, whose process object
\* has only cwd (path.js:29-37); table maps the keys '=X:' that are set to
\* the drive's current directory
EnvTable(t) == [defined |-> TRUE, table |-> t]

NoEnvTable == [defined |-> FALSE, table |-> <<>>]

---------------------------------------------------------------------------
(* normalizeString: resolves '.' and '..' segments of a path tail.          *)

\* The body of the for loop, at index i with the loop variables
\* res, lastSegmentLength, lastSlash, dots and code.
RECURSIVE normalizeStringLoop(_, _, _, _, _, _, _, _, _)
normalizeStringLoop(path, allowAboveRoot, separator, i, res, lastSegmentLength, lastSlash, dots, code0) ==
  IF i > Len(path) THEN res
  ELSE IF i >= Len(path) /\ isSeparatorFor(separator, code0) THEN res   \* break
  ELSE
    LET code == IF i < Len(path) THEN charCodeAt(path, i) ELSE CHAR_FORWARD_SLASH
        notDotDot == \/ Len(res) < 2
                     \/ lastSegmentLength # 2
                     \/ charCodeAt(res, Len(res) - 1) # CHAR_DOT
                     \/ charCodeAt(res, Len(res) - 2) # CHAR_DOT
    IN
    IF isSeparatorFor(separator, code) THEN
      IF lastSlash = i - 1 \/ dots = 1 THEN
        \* NOOP
        normalizeStringLoop(path, allowAboveRoot, separator, i + 1, res,
                            lastSegmentLength, i, 0, code)
      ELSE IF dots = 2 THEN
        IF notDotDot /\ Len(res) > 2 THEN
          LET lastSlashIndex == lastIndexOf(res, separator)
              popped == IF lastSlashIndex = -1 THEN <<>>
                        ELSE slice(res, 0, lastSlashIndex)
              newLen == IF lastSlashIndex = -1 THEN 0
                        ELSE Len(popped) - 1 - lastIndexOf(popped, separator)
          IN  normalizeStringLoop(path, allowAboveRoot, separator, i + 1, popped,
                                  newLen, i, 0, code)
        ELSE IF notDotDot /\ Len(res) # 0 THEN
          normalizeStringLoop(path, allowAboveRoot, separator, i + 1, <<>>,
                              0, i, 0, code)
        ELSE IF allowAboveRoot THEN
          normalizeStringLoop(path, allowAboveRoot, separator, i + 1,
                              IF Len(res) > 0 THEN res \o <<separator, ".", ".">>
                              ELSE <<".", ".">>,
                              2, i, 0, code)
        ELSE
          normalizeStringLoop(path, allowAboveRoot, separator, i + 1, res,
                              lastSegmentLength, i, 0, code)
      ELSE
        normalizeStringLoop(path, allowAboveRoot, separator, i + 1,
                            IF Len(res) > 0
                            THEN res \o <<separator>> \o slice(path, lastSlash + 1, i)
                            ELSE slice(path, lastSlash + 1, i),
                            i - lastSlash - 1, i, 0, code)
    ELSE IF code = CHAR_DOT /\ dots # -1 THEN
      normalizeStringLoop(path, allowAboveRoot, separator, i + 1, res,
                          lastSegmentLength, lastSlash, dots + 1, code)
    ELSE
      normalizeStringLoop(path, allowAboveRoot, separator, i + 1, res,
                          lastSegmentLength, lastSlash, -1, code)

normalizeString(path, allowAboveRoot, separator) ==
  normalizeStringLoop(path, allowAboveRoot, separator, 0, <<>>, 0, -1, 0, "")

---------------------------------------------------------------------------
(* The POSIX engine.                                                        *)

\* posNormalize without the '.' that stands for an empty relative result
posNormalizeEmptyResult(path) ==
  IF Len(path) = 0 THEN <<".">>
  ELSE
    LET isAbsolute == charCodeAt(path, 0) = CHAR_FORWARD_SLASH
        trailingSeparator == charCodeAt(path, Len(path) - 1) = CHAR_FORWARD_SLASH
        normalized == normalizeString(path, ~isAbsolute, "/")
        withTrailing == IF trailingSeparator /\ Len(normalized) > 0
                        THEN normalized \o <<"/">> ELSE normalized
    IN  IF isAbsolute THEN <<"/">> \o withTrailing ELSE withTrailing

\* posNormalize that does not put the trailing separator back
posNormalizeNoTrailing(path) ==
  IF Len(path) = 0 THEN <<".">>
  ELSE
    LET isAbsolute == charCodeAt(path, 0) = CHAR_FORWARD_SLASH
        normalized == normalizeString(path, ~isAbsolute, "/")
    IN  IF Len(normalized) = 0
        THEN (IF isAbsolute THEN <<"/">> ELSE <<".">>)
        ELSE IF isAbsolute THEN <<"/">> \o normalized ELSE normalized

posNormalize(path) ==
  IF Len(path) = 0 THEN <<".">>
  ELSE
    LET isAbsolute == charCodeAt(path, 0) = CHAR_FORWARD_SLASH
        trailingSeparator == charCodeAt(path, Len(path) - 1) = CHAR_FORWARD_SLASH
        normalized == normalizeString(path, ~isAbsolute, "/")
    IN  IF Len(normalized) = 0
        THEN (IF isAbsolute THEN <<"/">>
              ELSE IF trailingSeparator THEN <<".", "/">> ELSE <<".">>)
        ELSE LET withTrailing == IF trailingSeparator THEN normalized \o <<"/">>
                                 ELSE normalized
             IN  IF isAbsolute THEN <<"/">> \o withTrailing ELSE withTrailing


---------------------------------------------------------------------------
(* The Windows engine.                                                      *)

\* while (j < len && !isPathSeparator(path.charCodeAt(j))) j++
RECURSIVE skipNonSeparators(_, _)
skipNonSeparators(path, j) ==
  IF j < Len(path) /\ ~isPathSeparator(charCodeAt(path, j))
  THEN skipNonSeparators(path, j + 1)
  ELSE j

\* while (j < len && isPathSeparator(path.charCodeAt(j))) j++
RECURSIVE skipSeparators(_, _)
skipSeparators(path, j) ==
  IF j < Len(path) /\ isPathSeparator(charCodeAt(path, j))
  THEN skipSeparators(path, j + 1)
  ELSE j

\* The root matching of winNormalize for len > 1: rootEnd, device (hasDevice
\* is FALSE where the source leaves device undefined), isAbsolute, and
\* whether the function returns early with a bare UNC root (early, value).
winNormalizeRoot(path) ==
  LET len == Len(path)
      code == charCodeAt(path, 0)
      none == [rootEnd |-> 0, hasDevice |-> FALSE, device |-> <<>>,
               isAbsolute |-> FALSE, early |-> FALSE, value |-> <<>>]
  IN
  IF isPathSeparator(code) THEN
    IF isPathSeparator(charCodeAt(path, 1)) THEN
      LET j1 == skipNonSeparators(path, 2)
          firstPart == slice(path, 2, j1)
          j2 == skipSeparators(path, j1)
          j3 == skipNonSeparators(path, j2)
      IN
      IF j1 < len /\ j1 # 2 /\ j2 < len /\ j2 # j1 THEN
        IF j3 = len THEN
          [none EXCEPT !.isAbsolute = TRUE, !.early = TRUE,
             !.value = <<"\\", "\\">> \o firstPart \o <<"\\">>
                       \o sliceFrom(path, j2) \o <<"\\">>]
        ELSE IF j3 # j2 THEN
          [none EXCEPT !.isAbsolute = TRUE, !.hasDevice = TRUE,
             !.device = <<"\\", "\\">> \o firstPart \o <<"\\">> \o slice(path, j2, j3),
             !.rootEnd = j3]
        ELSE [none EXCEPT !.isAbsolute = TRUE]
      ELSE [none EXCEPT !.isAbsolute = TRUE]
    ELSE [none EXCEPT !.isAbsolute = TRUE, !.rootEnd = 1]
  ELSE IF isWindowsDeviceRoot(code) /\ charCodeAt(path, 1) = CHAR_COLON THEN
    IF len > 2 /\ isPathSeparator(charCodeAt(path, 2))
    THEN [none EXCEPT !.hasDevice = TRUE, !.device = slice(path, 0, 2),
                      !.isAbsolute = TRUE, !.rootEnd = 3]
    ELSE [none EXCEPT !.hasDevice = TRUE, !.device = slice(path, 0, 2),
                      !.rootEnd = 2]
  ELSE none

winNormalize(path) ==
  LET len == Len(path) IN
  IF len = 0 THEN <<".">>
  ELSE IF len = 1 THEN
    (IF isPosixPathSeparator(charCodeAt(path, 0)) THEN <<"\\">> ELSE path)
  ELSE
    LET r == winNormalizeRoot(path)
        tail0 == IF r.rootEnd < len
                 THEN normalizeString(sliceFrom(path, r.rootEnd), ~r.isAbsolute, "\\")
                 ELSE <<>>
        tail1 == IF Len(tail0) = 0 /\ ~r.isAbsolute THEN <<".">> ELSE tail0
        tail == IF Len(tail1) > 0 /\ isPathSeparator(charCodeAt(path, len - 1))
                THEN tail1 \o <<"\\">> ELSE tail1
    IN
    IF r.early THEN r.value
    ELSE IF ~r.hasDevice THEN (IF r.isAbsolute THEN <<"\\">> \o tail ELSE tail)
    ELSE IF r.isAbsolute THEN r.device \o <<"\\">> \o tail
    ELSE r.device \o tail


---------------------------------------------------------------------------
(* join.                                                                    *)

\* The for loop of posJoin and of winJoin over the arguments from index i
\* (0-based): threw if an argument is not a string; joined is defined once
\* a non-empty argument was seen, firstPart is that argument.
RECURSIVE joinLoop(_, _, _, _, _, _)
joinLoop(argv, sep, i, defined, joined, firstPart) ==
  IF i >= Len(argv)
  THEN [threw |-> FALSE, defined |-> defined, joined |-> joined, firstPart |-> firstPart]
  ELSE
    LET arg == argv[i + 1] IN
    IF ~validateString(arg)
    THEN [threw |-> TRUE, defined |-> defined, joined |-> joined, firstPart |-> firstPart]
    ELSE IF Len(arg.str) > 0 THEN
      (IF ~defined
       THEN joinLoop(argv, sep, i + 1, TRUE, arg.str, arg.str)
       ELSE joinLoop(argv, sep, i + 1, TRUE, joined \o <<sep>> \o arg.str, firstPart))
    ELSE joinLoop(argv, sep, i + 1, defined, joined, firstPart)

\* posJoin that returns the joined string without normalizing it
posJoinUnnormalized(argv) ==
  IF Len(argv) = 0 THEN Return(<<".">>)
  ELSE
    LET r == joinLoop(argv, "/", 0, FALSE, <<>>, <<>>) IN
    IF r.threw THEN Throw("ERR_INVALID_ARG_TYPE")
    ELSE IF ~r.defined THEN Return(<<".">>)
    ELSE Return(r.joined)

posJoin(argv) ==
  IF Len(argv) = 0 THEN Return(<<".">>)
  ELSE
    LET r == joinLoop(argv, "/", 0, FALSE, <<>>, <<>>) IN
    IF r.threw THEN Throw("ERR_INVALID_ARG_TYPE")
    ELSE IF ~r.defined THEN Return(<<".">>)
    ELSE Return(posNormalize(r.joined))

\* winJoinCollapse that leaves joined as it is
winJoinNoCollapse(joined, firstPart) == joined

\* winJoin after the loop: the leading separators of joined are replaced
\* by one '\' unless firstPart starts with exactly two separators and a
\* character that is not a separator.
winJoinCollapse(joined, firstPart) ==
  LET firstLen == Len(firstPart)
      sep0 == isPathSeparator(charCodeAt(firstPart, 0))
      sep1 == sep0 /\ firstLen > 1 /\ isPathSeparator(charCodeAt(firstPart, 1))
      sep2 == sep1 /\ firstLen > 2 /\ isPathSeparator(charCodeAt(firstPart, 2))
      needsReplace == ~(sep1 /\ firstLen > 2 /\ ~sep2)
      slashCount0 == IF sep2 THEN 3 ELSE IF sep1 THEN 2 ELSE IF sep0 THEN 1 ELSE 0
      slashCount == skipSeparators(joined, slashCount0)
  IN  IF needsReplace /\ slashCount >= 2
      THEN <<"\\">> \o sliceFrom(joined, slashCount)
      ELSE joined

winJoin(argv) ==
  IF Len(argv) = 0 THEN Return(<<".">>)
  ELSE
    LET r == joinLoop(argv, "\\", 0, FALSE, <<>>, <<>>) IN
    IF r.threw THEN Throw("ERR_INVALID_ARG_TYPE")
    ELSE IF ~r.defined THEN Return(<<".">>)
    ELSE Return(winNormalize(winJoinCollapse(r.joined, r.firstPart)))

---------------------------------------------------------------------------
(* resolve.                                                                 *)

\* cwd.replace(/\\/g, '/')
backslashesToSlashes(s) ==
  [k \in 1..Len(s) |-> IF s[k] = CHAR_BACKWARD_SLASH THEN CHAR_FORWARD_SLASH ELSE s[k]]

\* posixCwd(): on a Windows host the cwd with '/' for '\' and without its
\* drive, else the cwd
posixCwd ==
  IF platformIsWin32
  THEN LET c == backslashesToSlashes(cwd) IN sliceFrom(c, indexOf(c, "/"))
  ELSE cwd

\* The for loop of posResolve at index i (0-based; -1 stands for the cwd).
RECURSIVE posResolveLoop(_, _, _, _)
posResolveLoop(argv, i, resolvedPath, resolvedAbsolute) ==
  IF i < -1 \/ resolvedAbsolute
  THEN [threw |-> FALSE, resolvedPath |-> resolvedPath,
        resolvedAbsolute |-> resolvedAbsolute]
  ELSE
    LET path == IF i >= 0 THEN argv[i + 1] ELSE Str(posixCwd) IN
    IF ~validateString(path)
    THEN [threw |-> TRUE, resolvedPath |-> resolvedPath,
          resolvedAbsolute |-> resolvedAbsolute]
    ELSE IF Len(path.str) = 0
    THEN posResolveLoop(argv, i - 1, resolvedPath, resolvedAbsolute)
    ELSE posResolveLoop(argv, i - 1, path.str \o <<"/">> \o resolvedPath,
                        charCodeAt(path.str, 0) = CHAR_FORWARD_SLASH)

posResolve(argv) ==
  LET r == posResolveLoop(argv, Len(argv) - 1, <<>>, FALSE)
      resolvedPath == normalizeString(r.resolvedPath, ~r.resolvedAbsolute, "/")
  IN  IF r.threw THEN Throw("ERR_INVALID_ARG_TYPE")
      ELSE IF r.resolvedAbsolute THEN Return(<<"/">> \o resolvedPath)
      ELSE IF Len(resolvedPath) > 0 THEN Return(resolvedPath)
      ELSE Return(<<".">>)

\* The root matching of winResolve: rootEnd, device ('' if none), isAbsolute.
winResolveRoot(path) ==
  LET len == Len(path)
      code == charCodeAt(path, 0)
      none == [rootEnd |-> 0, device |-> <<>>, isAbsolute |-> FALSE]
  IN
  IF len = 1 THEN
    (IF isPathSeparator(code) THEN [none EXCEPT !.rootEnd = 1, !.isAbsolute = TRUE]
     ELSE none)
  ELSE IF isPathSeparator(code) THEN
    IF isPathSeparator(charCodeAt(path, 1)) THEN
      LET j1 == skipNonSeparators(path, 2)
          firstPart == slice(path, 2, j1)
          j2 == skipSeparators(path, j1)
          j3 == skipNonSeparators(path, j2)
      IN
      IF j1 < len /\ j1 # 2 /\ j2 < len /\ j2 # j1 /\ (j3 = len \/ j3 # j2)
      THEN [rootEnd |-> j3,
            device |-> <<"\\", "\\">> \o firstPart \o <<"\\">> \o slice(path, j2, j3),
            isAbsolute |-> TRUE]
      ELSE [none EXCEPT !.isAbsolute = TRUE]
    ELSE [none EXCEPT !.isAbsolute = TRUE, !.rootEnd = 1]
  ELSE IF isWindowsDeviceRoot(code) /\ charCodeAt(path, 1) = CHAR_COLON THEN
    IF len > 2 /\ isPathSeparator(charCodeAt(path, 2))
    THEN [rootEnd |-> 3, device |-> slice(path, 0, 2), isAbsolute |-> TRUE]
    ELSE [rootEnd |-> 2, device |-> slice(path, 0, 2), isAbsolute |-> FALSE]
  ELSE none

\* The cwd of the drive resolvedDevice, where process.env is an object:
\* process.env['=X:'] || process.cwd(), replaced by the drive's root if it
\* names another drive and has a '\' at index 2. On a Windows host the
\* names of environment variables are looked up without regard to case.
driveCwd(resolvedDevice) ==
  LET key == <<"=">> \o resolvedDevice
      names == {k \in DOMAIN env.table :
                  IF platformIsWin32 THEN toLowerCase(k) = toLowerCase(key)
                  ELSE k = key}
      value == IF names = {} THEN <<>> ELSE env.table[CHOOSE k \in names : TRUE]
      found == IF Len(value) > 0 THEN value ELSE cwd
  IN  IF /\ toLowerCase(slice(found, 0, 2)) # toLowerCase(resolvedDevice)
         /\ charCodeAt(found, 2) = CHAR_BACKWARD_SLASH
      THEN resolvedDevice \o <<"\\">>
      ELSE found

\* The loop of winResolve below without its test for a path on another
\* device: such a path is taken like any other.
RECURSIVE winResolveLoopNoSkip(_, _, _, _, _)
winResolveLoopNoSkip(argv, i, resolvedDevice, resolvedTail, resolvedAbsolute) ==
  LET done(e) == [threw |-> e, resolvedDevice |-> resolvedDevice,
                  resolvedTail |-> resolvedTail, resolvedAbsolute |-> resolvedAbsolute]
  IN
  IF i < -1 THEN done("")
  ELSE IF i >= 0 /\ ~validateString(argv[i + 1]) THEN done("ERR_INVALID_ARG_TYPE")
  ELSE IF i >= 0 /\ Len(argv[i + 1].str) = 0
  THEN winResolveLoopNoSkip(argv, i - 1, resolvedDevice, resolvedTail, resolvedAbsolute)
  ELSE IF i < 0 /\ Len(resolvedDevice) # 0 /\ ~env.defined THEN done("TypeError")
  ELSE
    LET path == IF i >= 0 THEN argv[i + 1].str
                ELSE IF Len(resolvedDevice) = 0 THEN cwd
                ELSE driveCwd(resolvedDevice)
        r == winResolveRoot(path)
        device == IF Len(r.device) > 0 /\ Len(resolvedDevice) = 0
                  THEN r.device ELSE resolvedDevice
        tail == slice(path, r.rootEnd, Len(path)) \o <<"\\">> \o resolvedTail
    IN
    IF resolvedAbsolute THEN
      (IF Len(device) > 0
       THEN [threw |-> "", resolvedDevice |-> device, resolvedTail |-> resolvedTail,
             resolvedAbsolute |-> resolvedAbsolute]
       ELSE winResolveLoopNoSkip(argv, i - 1, device, resolvedTail, resolvedAbsolute))
    ELSE IF r.isAbsolute /\ Len(device) > 0
    THEN [threw |-> "", resolvedDevice |-> device, resolvedTail |-> tail,
          resolvedAbsolute |-> TRUE]
    ELSE winResolveLoopNoSkip(argv, i - 1, device, tail, r.isAbsolute)

\* The for loop of winResolve at index i (0-based; -1 stands for the cwd).
\* threw is "" if nothing was thrown.
RECURSIVE winResolveLoop(_, _, _, _, _)
winResolveLoop(argv, i, resolvedDevice, resolvedTail, resolvedAbsolute) ==
  LET done(e) == [threw |-> e, resolvedDevice |-> resolvedDevice,
                  resolvedTail |-> resolvedTail, resolvedAbsolute |-> resolvedAbsolute]
  IN
  IF i < -1 THEN done("")
  ELSE IF i >= 0 /\ ~validateString(argv[i + 1]) THEN done("ERR_INVALID_ARG_TYPE")
  ELSE IF i >= 0 /\ Len(argv[i + 1].str) = 0
  THEN winResolveLoop(argv, i - 1, resolvedDevice, resolvedTail, resolvedAbsolute)
  ELSE IF i < 0 /\ Len(resolvedDevice) # 0 /\ ~env.defined THEN done("TypeError")
  ELSE
    LET path == IF i >= 0 THEN argv[i + 1].str
                ELSE IF Len(resolvedDevice) = 0 THEN cwd
                ELSE driveCwd(resolvedDevice)
        r == winResolveRoot(path)
        device == IF Len(r.device) > 0 /\ Len(resolvedDevice) = 0
                  THEN r.device ELSE resolvedDevice
        tail == slice(path, r.rootEnd, Len(path)) \o <<"\\">> \o resolvedTail
    IN
    IF /\ Len(r.device) > 0
       /\ Len(resolvedDevice) > 0
       /\ toLowerCase(r.device) # toLowerCase(resolvedDevice)
    THEN \* this path points to another device
         winResolveLoop(argv, i - 1, resolvedDevice, resolvedTail, resolvedAbsolute)
    ELSE IF resolvedAbsolute THEN
      (IF Len(device) > 0
       THEN [threw |-> "", resolvedDevice |-> device, resolvedTail |-> resolvedTail,
             resolvedAbsolute |-> resolvedAbsolute]
       ELSE winResolveLoop(argv, i - 1, device, resolvedTail, resolvedAbsolute))
    ELSE IF r.isAbsolute /\ Len(device) > 0
    THEN [threw |-> "", resolvedDevice |-> device, resolvedTail |-> tail,
          resolvedAbsolute |-> TRUE]
    ELSE winResolveLoop(argv, i - 1, device, tail, r.isAbsolute)

winResolve(argv) ==
  LET r == winResolveLoop(argv, Len(argv) - 1, <<>>, <<>>, FALSE)
      resolvedTail == normalizeString(r.resolvedTail, ~r.resolvedAbsolute, "\\")
  IN  IF r.threw # "" THEN Throw(r.threw)
      ELSE IF r.resolvedAbsolute
      THEN Return(r.resolvedDevice \o <<"\\">> \o resolvedTail)
      ELSE IF Len(r.resolvedDevice \o resolvedTail) > 0
      THEN Return(r.resolvedDevice \o resolvedTail)
      ELSE Return(<<".">>)

posIsAbsolute(path) == Len(path) > 0 /\ charCodeAt(path, 0) = CHAR_FORWARD_SLASH

winIsAbsolute(path) ==
  LET len == Len(path)
      code == charCodeAt(path, 0)
  IN  IF len = 0 THEN FALSE
      ELSE \/ isPathSeparator(code)
           \/ /\ len > 2
              /\ isWindowsDeviceRoot(code)
              /\ charCodeAt(path, 1) = CHAR_COLON
              /\ isPathSeparator(charCodeAt(path, 2))

---------------------------------------------------------------------------
(* relative.                                                                *)

\* commonLoop that takes every common character for a common separator
RECURSIVE commonLoopAnyCharacter(_, _, _, _, _, _, _, _)
commonLoopAnyCharacter(from, to, fromStart, toStart, length, sep, i, lastCommonSep) ==
  IF i >= length THEN [i |-> i, lastCommonSep |-> lastCommonSep]
  ELSE
    IF charCodeAt(from, fromStart + i) # charCodeAt(to, toStart + i)
    THEN [i |-> i, lastCommonSep |-> lastCommonSep]
    ELSE commonLoopAnyCharacter(from, to, fromStart, toStart, length, sep, i + 1, i)

\* The comparison loop of posRelative and winRelative: from index i, the
\* index at which the loop ends and the last common separator seen.
RECURSIVE commonLoop(_, _, _, _, _, _, _, _)
commonLoop(from, to, fromStart, toStart, length, sep, i, lastCommonSep) ==
  IF i >= length THEN [i |-> i, lastCommonSep |-> lastCommonSep]
  ELSE
    LET fromCode == charCodeAt(from, fromStart + i) IN
    IF fromCode # charCodeAt(to, toStart + i)
    THEN [i |-> i, lastCommonSep |-> lastCommonSep]
    ELSE commonLoop(from, to, fromStart, toStart, length, sep, i + 1,
                    IF fromCode = sep THEN i ELSE lastCommonSep)

\* The loop that writes one '..' for every segment of from after index i.
RECURSIVE upLoop(_, _, _, _, _)
upLoop(from, fromEnd, sep, i, out) ==
  IF i > fromEnd THEN out
  ELSE IF i = fromEnd \/ charCodeAt(from, i) = sep
  THEN upLoop(from, fromEnd, sep, i + 1,
              IF Len(out) = 0 THEN <<".", ".">> ELSE out \o <<sep, ".", ".">>)
  ELSE upLoop(from, fromEnd, sep, i + 1, out)

\* posRelativeResolved that writes no '..' for the segments of from
posRelativeResolvedNoUp(from, to) ==
  LET fromStart == 1
      fromEnd == Len(from)
      fromLen == fromEnd - fromStart
      toStart == 1
      toLen == Len(to) - toStart
      length == IF fromLen < toLen THEN fromLen ELSE toLen
      c == commonLoop(from, to, fromStart, toStart, length, "/", 0, -1)
      i == c.i
      lastCommonSep ==
        IF i = length /\ ~(toLen > length) /\ fromLen > length
        THEN (IF charCodeAt(from, fromStart + i) = CHAR_FORWARD_SLASH THEN i
              ELSE IF i = 0 THEN 0
              ELSE c.lastCommonSep)
        ELSE c.lastCommonSep
      out == <<>>
  IN
  IF i = length /\ toLen > length
     /\ charCodeAt(to, toStart + i) = CHAR_FORWARD_SLASH
  THEN sliceFrom(to, toStart + i + 1)
  ELSE IF i = length /\ toLen > length /\ i = 0
  THEN sliceFrom(to, toStart + i)
  ELSE out \o sliceFrom(to, toStart + lastCommonSep)

\* posRelative after both paths are resolved to from and to, from # to
posRelativeResolved(from, to) ==
  LET fromStart == 1
      fromEnd == Len(from)
      fromLen == fromEnd - fromStart
      toStart == 1
      toLen == Len(to) - toStart
      length == IF fromLen < toLen THEN fromLen ELSE toLen
      c == commonLoop(from, to, fromStart, toStart, length, "/", 0, -1)
      i == c.i
      lastCommonSep ==
        IF i = length /\ ~(toLen > length) /\ fromLen > length
        THEN (IF charCodeAt(from, fromStart + i) = CHAR_FORWARD_SLASH THEN i
              ELSE IF i = 0 THEN 0
              ELSE c.lastCommonSep)
        ELSE c.lastCommonSep
      out == upLoop(from, fromEnd, "/", fromStart + lastCommonSep + 1, <<>>)
  IN
  IF i = length /\ toLen > length
     /\ charCodeAt(to, toStart + i) = CHAR_FORWARD_SLASH
  THEN sliceFrom(to, toStart + i + 1)
  ELSE IF i = length /\ toLen > length /\ i = 0
  THEN sliceFrom(to, toStart + i)
  ELSE out \o sliceFrom(to, toStart + lastCommonSep)

posRelative(from, to) ==
  IF ~validateString(from) \/ ~validateString(to) THEN Throw("ERR_INVALID_ARG_TYPE")
  ELSE IF from.str = to.str THEN Return(<<>>)
  ELSE
    LET f == posResolve(<<from>>)
        t == posResolve(<<to>>)
    IN  IF f.kind = "throw" THEN f
        ELSE IF t.kind = "throw" THEN t
        ELSE IF f.value = t.value THEN Return(<<>>)
        ELSE Return(posRelativeResolved(f.value, t.value))

\* Trim any leading backslashes: the index of the first other character
RECURSIVE trimLeading(_, _)
trimLeading(s, start) ==
  IF start < Len(s) /\ charCodeAt(s, start) = CHAR_BACKWARD_SLASH
  THEN trimLeading(s, start + 1)
  ELSE start

\* Trim trailing backslashes: the end index after them
RECURSIVE trimTrailing(_, _, _)
trimTrailing(s, start, end) ==
  IF end - 1 > start /\ charCodeAt(s, end - 1) = CHAR_BACKWARD_SLASH
  THEN trimTrailing(s, start, end - 1)
  ELSE end

\* winRelative from the comparison loop on: c is what the loop found
winRelativeOut(toOrig, from, to, fromStart, fromEnd, toStart, toEnd, length, c) ==
  LET fromLen == fromEnd - fromStart
      toLen == toEnd - toStart
      i == c.i
      sep1 == IF fromLen > length
              THEN (IF charCodeAt(from, fromStart + i) = CHAR_BACKWARD_SLASH THEN i
                    ELSE IF i = 2 THEN 3
                    ELSE c.lastCommonSep)
              ELSE c.lastCommonSep
      lastCommonSep == IF i # length THEN c.lastCommonSep
                       ELSE IF sep1 = -1 THEN 0 ELSE sep1
      out == upLoop(from, fromEnd, "\\", fromStart + lastCommonSep + 1, <<>>)
      toStart1 == toStart + lastCommonSep
      toStart2 == IF charCodeAt(toOrig, toStart1) = CHAR_BACKWARD_SLASH
                  THEN toStart1 + 1 ELSE toStart1
  IN
  IF i # length /\ c.lastCommonSep = -1 THEN toOrig
  ELSE IF i = length /\ toLen > length
          /\ charCodeAt(to, toStart + i) = CHAR_BACKWARD_SLASH
  THEN sliceFrom(toOrig, toStart + i + 1)
  ELSE IF i = length /\ toLen > length /\ i = 2
  THEN sliceFrom(toOrig, toStart + i)
  ELSE IF Len(out) > 0 THEN out \o slice(toOrig, toStart1, toEnd)
  ELSE slice(toOrig, toStart2, toEnd)

\* winRelative once both paths are trimmed: the comparison loop runs over
\* the shorter of the two lengths
winRelativeCompare(toOrig, from, to, fromStart, fromEnd, toStart, toEnd) ==
  LET fromLen == fromEnd - fromStart
      toLen == toEnd - toStart
      length == IF fromLen < toLen THEN fromLen ELSE toLen
  IN  winRelativeOut(toOrig, from, to, fromStart, fromEnd, toStart, toEnd, length,
                     commonLoop(from, to, fromStart, toStart, length, "\\", 0, -1))

\* winRelative on the lower-case paths from and to: the trimming of
\* leading and trailing backslashes
winRelativeTrim(toOrig, from, to, fromStart, toStart) ==
  winRelativeCompare(toOrig, from, to,
                     fromStart, trimTrailing(from, fromStart, Len(from)),
                     toStart, trimTrailing(to, toStart, Len(to)))

\* winRelative after both paths are resolved to fromOrig and toOrig, which
\* differ also in lower case
winRelativeResolved(fromOrig, toOrig) ==
  winRelativeTrim(toOrig, toLowerCase(fromOrig), toLowerCase(toOrig),
                  trimLeading(toLowerCase(fromOrig), 0),
                  trimLeading(toLowerCase(toOrig), 0))

\* winRelative once both arguments are resolved to the completions f and t
winRelativeOf(f, t) ==
  IF f.kind = "throw" THEN f
  ELSE IF t.kind = "throw" THEN t
  ELSE IF f.value = t.value THEN Return(<<>>)
  ELSE IF toLowerCase(f.value) = toLowerCase(t.value) THEN Return(<<>>)
  ELSE Return(winRelativeResolved(f.value, t.value))

winRelative(from, to) ==
  IF ~validateString(from) \/ ~validateString(to) THEN Throw("ERR_INVALID_ARG_TYPE")
  ELSE IF from.str = to.str THEN Return(<<>>)
  ELSE winRelativeOf(winResolve(<<from>>), winResolve(<<to>>))

---------------------------------------------------------------------------
(* parse and format.                                                        *)

\* formatExt that returns ext as it is
formatExtAsIs(ext) == ext

\* ext ? `${ext[0] === '.' ? '' : '.'}${ext}` : ''
formatExt(ext) ==
  IF Len(ext) > 0
  THEN (IF ext[1] = "." THEN <<>> ELSE <<".">>) \o ext
  ELSE <<>>

\* pathObject[key] is a non-empty string (a truthy value)
truthy(pathObject, key) == key \in DOMAIN pathObject /\ Len(pathObject[key]) > 0

\* _format that puts the separator after dir also when dir is the root
_formatAlwaysSep(sep, pathObject) ==
  LET dirTruthy == truthy(pathObject, "dir") \/ truthy(pathObject, "root")
      dir == IF truthy(pathObject, "dir") THEN pathObject["dir"] ELSE pathObject["root"]
      base == IF truthy(pathObject, "base") THEN pathObject["base"]
              ELSE (IF truthy(pathObject, "name") THEN pathObject["name"] ELSE <<>>)
                   \o (IF "ext" \in DOMAIN pathObject
                       THEN formatExt(pathObject["ext"]) ELSE <<>>)
  IN  IF ~dirTruthy THEN base ELSE dir \o <<sep>> \o base

\* _format(sep, pathObject) for a pathObject whose fields, where present, are
\* strings; an absent field is undefined.
_format(sep, pathObject) ==
  LET dirTruthy == truthy(pathObject, "dir") \/ truthy(pathObject, "root")
      dir == IF truthy(pathObject, "dir") THEN pathObject["dir"] ELSE pathObject["root"]
      base == IF truthy(pathObject, "base") THEN pathObject["base"]
              ELSE (IF truthy(pathObject, "name") THEN pathObject["name"] ELSE <<>>)
                   \o (IF "ext" \in DOMAIN pathObject
                       THEN formatExt(pathObject["ext"]) ELSE <<>>)
  IN  IF ~dirTruthy THEN base
      ELSE IF "root" \in DOMAIN pathObject /\ dir = pathObject["root"]
           THEN dir \o base
           ELSE dir \o <<sep>> \o base

posFormat(pathObject) == _format("/", pathObject)

winFormat(pathObject) == _format("\\", pathObject)

\* The scan of posParse from the end of the path down to index start.
RECURSIVE posParseLoop(_, _, _, _, _, _, _, _)
posParseLoop(path, start, i, startDot, startPart, end, matchedSlash, preDotState) ==
  IF i < start
  THEN [startDot |-> startDot, startPart |-> startPart, end |-> end,
        preDotState |-> preDotState]
  ELSE
    LET code == charCodeAt(path, i)
        end1 == IF end = -1 THEN i + 1 ELSE end
        matched1 == IF end = -1 THEN FALSE ELSE matchedSlash
    IN
    IF code = CHAR_FORWARD_SLASH THEN
      IF ~matchedSlash
      THEN [startDot |-> startDot, startPart |-> i + 1, end |-> end,
            preDotState |-> preDotState]
      ELSE posParseLoop(path, start, i - 1, startDot, startPart, end, matchedSlash,
                        preDotState)
    ELSE IF code = CHAR_DOT THEN
      IF startDot = -1
      THEN posParseLoop(path, start, i - 1, i, startPart, end1, matched1, preDotState)
      ELSE posParseLoop(path, start, i - 1, startDot, startPart, end1, matched1, 1)
    ELSE IF startDot # -1
      THEN posParseLoop(path, start, i - 1, startDot, startPart, end1, matched1, -1)
      ELSE posParseLoop(path, start, i - 1, startDot, startPart, end1, matched1,
                        preDotState)

\* posParse that cuts name from startPart, not from the start past the root
posParseNameFromStartPart(path) ==
  LET empty == [root |-> <<>>, dir |-> <<>>, base |-> <<>>, ext |-> <<>>, name |-> <<>>]
  IN
  IF Len(path) = 0 THEN empty
  ELSE
    LET isAbsolute == charCodeAt(path, 0) = CHAR_FORWARD_SLASH
        root == IF isAbsolute THEN <<"/">> ELSE <<>>
        start0 == IF isAbsolute THEN 1 ELSE 0
        s == posParseLoop(path, start0, Len(path) - 1, -1, 0, -1, TRUE, 0)
        start == IF s.startPart = 0 /\ isAbsolute THEN 1 ELSE s.startPart
        noExt == \/ s.startDot = -1
                 \/ s.preDotState = 0
                 \/ (s.preDotState = 1 /\ s.startDot = s.end - 1
                     /\ s.startDot = s.startPart + 1)
        dir == IF s.startPart > 0 THEN slice(path, 0, s.startPart - 1)
               ELSE IF isAbsolute THEN <<"/">> ELSE <<>>
    IN
    IF s.end = -1 THEN [empty EXCEPT !.root = root, !.dir = dir]
    ELSE IF noExt
    THEN [root |-> root, dir |-> dir, base |-> slice(path, start, s.end),
          ext |-> <<>>, name |-> slice(path, s.startPart, s.end)]
    ELSE [root |-> root, dir |-> dir, base |-> slice(path, start, s.end),
          ext |-> slice(path, s.startDot, s.end),
          name |-> slice(path, s.startPart, s.startDot)]

posParse(path) ==
  LET empty == [root |-> <<>>, dir |-> <<>>, base |-> <<>>, ext |-> <<>>, name |-> <<>>]
  IN
  IF Len(path) = 0 THEN empty
  ELSE
    LET isAbsolute == charCodeAt(path, 0) = CHAR_FORWARD_SLASH
        root == IF isAbsolute THEN <<"/">> ELSE <<>>
        start0 == IF isAbsolute THEN 1 ELSE 0
        s == posParseLoop(path, start0, Len(path) - 1, -1, 0, -1, TRUE, 0)
        start == IF s.startPart = 0 /\ isAbsolute THEN 1 ELSE s.startPart
        noExt == \/ s.startDot = -1
                 \/ s.preDotState = 0
                 \/ (s.preDotState = 1 /\ s.startDot = s.end - 1
                     /\ s.startDot = s.startPart + 1)
        dir == IF s.startPart > 0 THEN slice(path, 0, s.startPart - 1)
               ELSE IF isAbsolute THEN <<"/">> ELSE <<>>
    IN
    IF s.end = -1 THEN [empty EXCEPT !.root = root, !.dir = dir]
    ELSE IF noExt
    THEN [root |-> root, dir |-> dir, base |-> slice(path, start, s.end),
          ext |-> <<>>, name |-> slice(path, start, s.end)]
    ELSE [root |-> root, dir |-> dir, base |-> slice(path, start, s.end),
          ext |-> slice(path, s.startDot, s.end),
          name |-> slice(path, start, s.startDot)]

\* The root matching of winParse for len > 1: rootEnd, and whether the
\* function returns early with root = dir = path (a bare drive root).
winParseRoot(path) ==
  LET len == Len(path)
      code == charCodeAt(path, 0)
  IN
  IF isPathSeparator(code) THEN
    IF isPathSeparator(charCodeAt(path, 1)) THEN
      LET j1 == skipNonSeparators(path, 2)
          j2 == skipSeparators(path, j1)
          j3 == skipNonSeparators(path, j2)
      IN
      IF j1 < len /\ j1 # 2 /\ j2 < len /\ j2 # j1 THEN
        IF j3 = len THEN [rootEnd |-> j3, early |-> FALSE]
        ELSE IF j3 # j2 THEN [rootEnd |-> j3 + 1, early |-> FALSE]
        ELSE [rootEnd |-> 1, early |-> FALSE]
      ELSE [rootEnd |-> 1, early |-> FALSE]
    ELSE [rootEnd |-> 1, early |-> FALSE]
  ELSE IF isWindowsDeviceRoot(code) /\ charCodeAt(path, 1) = CHAR_COLON THEN
    IF len <= 2 THEN [rootEnd |-> 0, early |-> TRUE]
    ELSE IF isPathSeparator(charCodeAt(path, 2)) THEN
      (IF len = 3 THEN [rootEnd |-> 2, early |-> TRUE]
       ELSE [rootEnd |-> 3, early |-> FALSE])
    ELSE [rootEnd |-> 2, early |-> FALSE]
  ELSE [rootEnd |-> 0, early |-> FALSE]

\* The scan of winParse from the end of the path down to index rootEnd.
RECURSIVE winParseLoop(_, _, _, _, _, _, _, _)
winParseLoop(path, rootEnd, i, startDot, startPart, end, matchedSlash, preDotState) ==
  IF i < rootEnd
  THEN [startDot |-> startDot, startPart |-> startPart, end |-> end,
        preDotState |-> preDotState]
  ELSE
    LET code == charCodeAt(path, i)
        end1 == IF end = -1 THEN i + 1 ELSE end
        matched1 == IF end = -1 THEN FALSE ELSE matchedSlash
    IN
    IF isPathSeparator(code) THEN
      IF ~matchedSlash
      THEN [startDot |-> startDot, startPart |-> i + 1, end |-> end,
            preDotState |-> preDotState]
      ELSE winParseLoop(path, rootEnd, i - 1, startDot, startPart, end, matchedSlash,
                        preDotState)
    ELSE IF code = CHAR_DOT THEN
      IF startDot = -1
      THEN winParseLoop(path, rootEnd, i - 1, i, startPart, end1, matched1, preDotState)
      ELSE winParseLoop(path, rootEnd, i - 1, startDot, startPart, end1, matched1, 1)
    ELSE IF startDot # -1
      THEN winParseLoop(path, rootEnd, i - 1, startDot, startPart, end1, matched1, -1)
      ELSE winParseLoop(path, rootEnd, i - 1, startDot, startPart, end1, matched1,
                        preDotState)

winParse(path) ==
  LET empty == [root |-> <<>>, dir |-> <<>>, base |-> <<>>, ext |-> <<>>, name |-> <<>>]
      len == Len(path)
  IN
  IF len = 0 THEN empty
  ELSE IF len = 1 THEN
    (IF isPathSeparator(charCodeAt(path, 0))
     THEN [empty EXCEPT !.root = path, !.dir = path]
     ELSE [empty EXCEPT !.base = path, !.name = path])
  ELSE
    LET r == winParseRoot(path)
        rootEnd == r.rootEnd
        root == IF rootEnd > 0 THEN slice(path, 0, rootEnd) ELSE <<>>
        s == winParseLoop(path, rootEnd, len - 1, -1, rootEnd, -1, TRUE, 0)
        noExt == \/ s.startDot = -1
                 \/ s.preDotState = 0
                 \/ (s.preDotState = 1 /\ s.startDot = s.end - 1
                     /\ s.startDot = s.startPart + 1)
        dir == IF s.startPart > 0 /\ s.startPart # rootEnd
               THEN slice(path, 0, s.startPart - 1)
               ELSE root
    IN
    IF r.early THEN [empty EXCEPT !.root = path, !.dir = path]
    ELSE IF s.end = -1 THEN [empty EXCEPT !.root = root, !.dir = dir]
    ELSE IF noExt
    THEN [root |-> root, dir |-> dir, base |-> slice(path, s.startPart, s.end),
          ext |-> <<>>, name |-> slice(path, s.startPart, s.end)]
    ELSE [root |-> root, dir |-> dir, base |-> slice(path, s.startPart, s.end),
          ext |-> slice(path, s.startDot, s.end),
          name |-> slice(path, s.startPart, s.startDot)]


---------------------------------------------------------------------------
(* basename.                                                                *)

\* the index after a drive letter prefix of path, 0 if it has none
driveLetterEnd(path) ==
  IF /\ Len(path) >= 2
     /\ charCodeAt(path, 1) = CHAR_COLON
     /\ isWindowsDeviceRoot(charCodeAt(path, 0))
  THEN 2 ELSE 0

\* The for loop of posBasename and winBasename without suffix, from index i
\* down to lo; sep tells the dialect ('/' or '\').
RECURSIVE basenameLoop(_, _, _, _, _, _, _)
basenameLoop(path, sep, lo, i, start, end, matchedSlash) ==
  IF i < lo THEN [start |-> start, end |-> end]
  ELSE IF isSeparatorFor(sep, charCodeAt(path, i)) THEN
    (IF ~matchedSlash THEN [start |-> i + 1, end |-> end]
     ELSE basenameLoop(path, sep, lo, i - 1, start, end, matchedSlash))
  ELSE IF end = -1 THEN basenameLoop(path, sep, lo, i - 1, start, i + 1, FALSE)
  ELSE basenameLoop(path, sep, lo, i - 1, start, end, matchedSlash)

\* The for loop of posBasename and winBasename that matches suffix from its
\* end, from index i down to lo.
RECURSIVE basenameSuffixLoop(_, _, _, _, _, _, _, _, _, _)
basenameSuffixLoop(path, suffix, sep, lo, i, start, end, matchedSlash, extIdx, firstNonSlashEnd) ==
  IF i < lo THEN [start |-> start, end |-> end, firstNonSlashEnd |-> firstNonSlashEnd]
  ELSE IF isSeparatorFor(sep, charCodeAt(path, i)) THEN
    (IF ~matchedSlash
     THEN [start |-> i + 1, end |-> end, firstNonSlashEnd |-> firstNonSlashEnd]
     ELSE basenameSuffixLoop(path, suffix, sep, lo, i - 1, start, end, matchedSlash,
                             extIdx, firstNonSlashEnd))
  ELSE
    LET first == IF firstNonSlashEnd = -1 THEN i + 1 ELSE firstNonSlashEnd IN
    IF extIdx < 0
    THEN basenameSuffixLoop(path, suffix, sep, lo, i - 1, start, end, FALSE, extIdx, first)
    ELSE IF charCodeAt(path, i) = charCodeAt(suffix, extIdx)
    THEN basenameSuffixLoop(path, suffix, sep, lo, i - 1, start,
                            IF extIdx = 0 THEN i ELSE end, FALSE, extIdx - 1, first)
    ELSE basenameSuffixLoop(path, suffix, sep, lo, i - 1, start, first, FALSE, -1, first)

\* what basename returns after the loop that matches the suffix
basenameSuffixEnd(path, s) ==
  slice(path, s.start,
        IF s.start = s.end THEN s.firstNonSlashEnd
        ELSE IF s.end = -1 THEN Len(path)
        ELSE s.end)

\* what basename returns after the loop without suffix
basenameEnd(path, s) == IF s.end = -1 THEN <<>> ELSE slice(path, s.start, s.end)

\* basename of the strings path and suffix (suffix is undefined or a
\* string), scanning down to index lo
basenameFrom(path, suffix, sep, lo) ==
  IF suffix.type = "string" /\ Len(suffix.str) > 0 /\ Len(suffix.str) <= Len(path)
  THEN IF suffix.str = path THEN <<>>
       ELSE basenameSuffixEnd(path,
              basenameSuffixLoop(path, suffix.str, sep, lo, Len(path) - 1, lo, -1, TRUE,
                                 Len(suffix.str) - 1, -1))
  ELSE basenameEnd(path, basenameLoop(path, sep, lo, Len(path) - 1, lo, -1, TRUE))

posBasename(path, suffix) ==
  IF suffix.type # "undefined" /\ ~validateString(suffix) THEN Throw("ERR_INVALID_ARG_TYPE")
  ELSE IF ~validateString(path) THEN Throw("ERR_INVALID_ARG_TYPE")
  ELSE Return(basenameFrom(path.str, suffix, "/", 0))

winBasename(path, suffix) ==
  IF suffix.type # "undefined" /\ ~validateString(suffix) THEN Throw("ERR_INVALID_ARG_TYPE")
  ELSE IF ~validateString(path) THEN Throw("ERR_INVALID_ARG_TYPE")
  ELSE Return(basenameFrom(path.str, suffix, "\\", driveLetterEnd(path.str)))

---------------------------------------------------------------------------
(* extname.                                                                 *)

\* The for loop of posExtname from index i down to 0.
RECURSIVE posExtnameLoop(_, _, _, _, _, _, _)
posExtnameLoop(path, i, startDot, startPart, end, matchedSlash, preDotState) ==
  IF i < 0
  THEN [startDot |-> startDot, startPart |-> startPart, end |-> end,
        preDotState |-> preDotState]
  ELSE
    LET code == charCodeAt(path, i)
        end1 == IF end = -1 THEN i + 1 ELSE end
        matched1 == IF end = -1 THEN FALSE ELSE matchedSlash
    IN
    IF code = CHAR_FORWARD_SLASH THEN
      IF ~matchedSlash
      THEN [startDot |-> startDot, startPart |-> i + 1, end |-> end,
            preDotState |-> preDotState]
      ELSE posExtnameLoop(path, i - 1, startDot, startPart, end, matchedSlash, preDotState)
    ELSE IF code = CHAR_DOT THEN
      IF startDot = -1
      THEN posExtnameLoop(path, i - 1, i, startPart, end1, matched1, preDotState)
      ELSE posExtnameLoop(path, i - 1, startDot, startPart, end1, matched1, 1)
    ELSE IF startDot # -1
      THEN posExtnameLoop(path, i - 1, startDot, startPart, end1, matched1, -1)
      ELSE posExtnameLoop(path, i - 1, startDot, startPart, end1, matched1, preDotState)

\* the result of extname from what its loop found
extnameOf(path, s) ==
  IF \/ s.startDot = -1
     \/ s.end = -1
     \/ s.preDotState = 0
     \/ (s.preDotState = 1 /\ s.startDot = s.end - 1 /\ s.startDot = s.startPart + 1)
  THEN <<>>
  ELSE slice(path, s.startDot, s.end)

posExtname(path) ==
  extnameOf(path, posExtnameLoop(path, Len(path) - 1, -1, 0, -1, TRUE, 0))

\* The for loop of winExtname from index i down to start.
RECURSIVE winExtnameLoop(_, _, _, _, _, _, _, _)
winExtnameLoop(path, start, i, startDot, startPart, end, matchedSlash, preDotState) ==
  IF i < start
  THEN [startDot |-> startDot, startPart |-> startPart, end |-> end,
        preDotState |-> preDotState]
  ELSE
    LET code == charCodeAt(path, i)
        end1 == IF end = -1 THEN i + 1 ELSE end
        matched1 == IF end = -1 THEN FALSE ELSE matchedSlash
    IN
    IF isPathSeparator(code) THEN
      IF ~matchedSlash
      THEN [startDot |-> startDot, startPart |-> i + 1, end |-> end,
            preDotState |-> preDotState]
      ELSE winExtnameLoop(path, start, i - 1, startDot, startPart, end, matchedSlash,
                          preDotState)
    ELSE IF code = CHAR_DOT THEN
      IF startDot = -1
      THEN winExtnameLoop(path, start, i - 1, i, startPart, end1, matched1, preDotState)
      ELSE winExtnameLoop(path, start, i - 1, startDot, startPart, end1, matched1, 1)
    ELSE IF startDot # -1
      THEN winExtnameLoop(path, start, i - 1, startDot, startPart, end1, matched1, -1)
      ELSE winExtnameLoop(path, start, i - 1, startDot, startPart, end1, matched1,
                          preDotState)

winExtnameFrom(path, start) ==
  extnameOf(path, winExtnameLoop(path, start, Len(path) - 1, -1, start, -1, TRUE, 0))

winExtname(path) == winExtnameFrom(path, driveLetterEnd(path))

---------------------------------------------------------------------------
(* toNamespacedPath: the long-path form of a resolved Windows path. The      *)
(* operation returns its argument, whatever it is, in several cases, so its *)
(* result is a JS value.                                                    *)

\* the part of winToNamespacedPath after the call of winResolve
winNamespaced(path, resolvedPath) ==
  IF Len(resolvedPath) <= 2 THEN path
  ELSE IF charCodeAt(resolvedPath, 0) = CHAR_BACKWARD_SLASH THEN
    \* possible UNC root
    (IF /\ charCodeAt(resolvedPath, 1) = CHAR_BACKWARD_SLASH
        /\ charCodeAt(resolvedPath, 2) # CHAR_QUESTION_MARK
        /\ charCodeAt(resolvedPath, 2) # CHAR_DOT
     THEN <<"\\", "\\", "?", "\\", "U", "N", "C", "\\">> \o sliceFrom(resolvedPath, 2)
     ELSE path)
  ELSE IF /\ isWindowsDeviceRoot(charCodeAt(resolvedPath, 0))
          /\ charCodeAt(resolvedPath, 1) = CHAR_COLON
          /\ charCodeAt(resolvedPath, 2) = CHAR_BACKWARD_SLASH
  THEN <<"\\", "\\", "?", "\\">> \o resolvedPath
  ELSE path

\* winToNamespacedPath from the completion of its call of winResolve on
winNamespacedOf(path, resolved) ==
  IF resolved.kind = "throw" THEN resolved
  ELSE Return(Str(winNamespaced(path.str, resolved.value)))

winToNamespacedPath(path) ==
  IF ~validateString(path) \/ Len(path.str) = 0 THEN Return(path)
  ELSE winNamespacedOf(path, winResolve(<<path>>))

\* non-op on posix systems
posToNamespacedPath(path) == Return(path)

---------------------------------------------------------------------------
(* The exported engine objects. An object is Obj of the function from the   *)
(* names of its properties to their values; an operation is a function      *)
(* value known by the name of its definition.                               *)

Fn(name) == [type |-> "function", str |-> <<>>, name |-> name]

winSep == <<"\\">>

winDelimiter == <<";">>

posSep == <<"/">>

posDelimiter == <<":">>

__win32 ==
  [resolve |-> Fn("winResolve"),
   normalize |-> Fn("winNormalize"),
   isAbsolute |-> Fn("winIsAbsolute"),
   join |-> Fn("winJoin"),
   relative |-> Fn("winRelative"),
   toNamespacedPath |-> Fn("winToNamespacedPath"),
   dirname |-> Fn("winDirname"),
   basename |-> Fn("winBasename"),
   extname |-> Fn("winExtname"),
   format |-> Fn("winFormat"),
   parse |-> Fn("winParse"),
   sep |-> Str(winSep),
   delimiter |-> Str(winDelimiter)]

__posix ==
  [resolve |-> Fn("posResolve"),
   normalize |-> Fn("posNormalize"),
   isAbsolute |-> Fn("posIsAbsolute"),
   join |-> Fn("posJoin"),
   relative |-> Fn("posRelative"),
   toNamespacedPath |-> Fn("posToNamespacedPath"),
   dirname |-> Fn("posDirname"),
   basename |-> Fn("posBasename"),
   extname |-> Fn("posExtname"),
   format |-> Fn("posFormat"),
   parse |-> Fn("posParse"),
   sep |-> Str(posSep),
   delimiter |-> Str(posDelimiter)]

\* { ...__win32, posix: __posix, win32: __win32 }
win32 == Obj(("posix" :> Obj(__posix)) @@ ("win32" :> Obj(__win32)) @@ __win32)

\* { ...__posix, posix: __posix, win32: __win32 }
posix == Obj(("posix" :> Obj(__posix)) @@ ("win32" :> Obj(__win32)) @@ __posix)

\* value.key: undefined if value is not an object with that property
GetProperty(value, key) ==
  IF value.type = "object" /\ key \in DOMAIN value.fields THEN value.fields[key]
  ELSE Undefined

\* value.k1.k2...: the property access chain of the names keys, which
\* throws a TypeError where it reads a property of undefined
RECURSIVE GetChain(_, _)
GetChain(value, keys) ==
  IF Len(keys) = 0 THEN Return(value)
  ELSE IF value.type = "undefined" THEN Throw("TypeError")
  ELSE GetChain(GetProperty(value, Head(keys)), Tail(keys))

---------------------------------------------------------------------------
(* The calls: each action is one call of an exported operation on the      *)
(* chosen arguments.                                                        *)

Completes(name, completion) ==
  /\ pc' = "return"
  /\ op' = name
  /\ ret' = completion
  /\ UNCHANGED <<args, platformIsWin32, cwd, env>>

PosNormalize ==
  /\ pc = "call"
  /\ Completes("posix.normalize",
                 IF validateString(Arg(args, 1)) THEN Return(posNormalize(Arg(args, 1).str))
                 ELSE Throw("ERR_INVALID_ARG_TYPE"))

WinNormalize ==
  /\ pc = "call"
  /\ Completes("win32.normalize",
                 IF validateString(Arg(args, 1)) THEN Return(winNormalize(Arg(args, 1).str))
                 ELSE Throw("ERR_INVALID_ARG_TYPE"))

PosParse ==
  /\ pc = "call"
  /\ Completes("posix.parse",
                 IF validateString(Arg(args, 1)) THEN Return(posParse(Arg(args, 1).str))
                 ELSE Throw("ERR_INVALID_ARG_TYPE"))

WinParse ==
  /\ pc = "call"
  /\ Completes("win32.parse",
                 IF validateString(Arg(args, 1)) THEN Return(winParse(Arg(args, 1).str))
                 ELSE Throw("ERR_INVALID_ARG_TYPE"))

PosJoin ==
  /\ pc = "call"
  /\ Completes("posix.join", posJoin(args))

WinJoin ==
  /\ pc = "call"
  /\ Completes("win32.join", winJoin(args))

PosRelative ==
  /\ pc = "call"
  /\ Completes("posix.relative", posRelative(Arg(args, 1), Arg(args, 2)))

WinRelative ==
  /\ pc = "call"
  /\ Completes("win32.relative", winRelative(Arg(args, 1), Arg(args, 2)))

PosResolve ==
  /\ pc = "call"
  /\ Completes("posix.resolve", posResolve(args))

WinResolve ==
  /\ pc = "call"
  /\ Completes("win32.resolve", winResolve(args))

PosExtname ==
  /\ pc = "call"
  /\ Completes("posix.extname",
                 IF validateString(Arg(args, 1)) THEN Return(posExtname(Arg(args, 1).str))
                 ELSE Throw("ERR_INVALID_ARG_TYPE"))

WinExtname ==
  /\ pc = "call"
  /\ Completes("win32.extname",
                 IF validateString(Arg(args, 1)) THEN Return(winExtname(Arg(args, 1).str))
                 ELSE Throw("ERR_INVALID_ARG_TYPE"))

PosBasename ==
  /\ pc = "call"
  /\ Completes("posix.basename", posBasename(Arg(args, 1), Arg(args, 2)))

WinBasename ==
  /\ pc = "call"
  /\ Completes("win32.basename", winBasename(Arg(args, 1), Arg(args, 2)))

PosToNamespacedPath ==
  /\ pc = "call"
  /\ Completes("posix.toNamespacedPath", posToNamespacedPath(Arg(args, 1)))

WinToNamespacedPath ==
  /\ pc = "call"
  /\ Completes("win32.toNamespacedPath", winToNamespacedPath(Arg(args, 1)))

\* import { posix } from 'path-unified', and a property access chain on it
ImportPosix ==
  /\ pc = "call"
  /\ Completes("posix", GetChain(posix, args))

\* import { win32 } from 'path-unified', and a property access chain on it
ImportWin32 ==
  /\ pc = "call"
  /\ Completes("win32", GetChain(win32, args))

\* import path from 'path-unified', and a property access chain on it
ImportDefault ==
  /\ pc = "call"
  /\ Completes("default", GetChain(IF platformIsWin32 THEN win32 ELSE posix, args))

\* the internal call normalizeString(path, allowAboveRoot, '/',
\* isPosixPathSeparator) of posNormalize and posResolve
PosNormalizeString ==
  /\ pc = "call"
  /\ Completes("normalizeString /", Return(normalizeString(args[1].str, args[2].value, "/")))

\* the internal call normalizeString(path, allowAboveRoot, '\\',
\* isPathSeparator) of winNormalize and winResolve
WinNormalizeString ==
  /\ pc = "call"
  /\ Completes("normalizeString \\", Return(normalizeString(args[1].str, args[2].value, "\\")))

PosFormat ==
  /\ pc = "call"
  /\ Completes("posix.format",
                 IF validateObject(Arg(args, 1)) THEN Return(posFormat(Arg(args, 1).fields))
                 ELSE Throw("ERR_INVALID_ARG_TYPE"))

WinFormat ==
  /\ pc = "call"
  /\ Completes("win32.format",
                 IF validateObject(Arg(args, 1)) THEN Return(winFormat(Arg(args, 1).fields))
                 ELSE Throw("ERR_INVALID_ARG_TYPE"))

---------------------------------------------------------------------------
(* The hosts: the platform flag, process.cwd() and process.env.             *)

\* Node on a POSIX host, in '/' and in '/a'; the browser shim (cwd '/', no
\* process.env); Node on Windows in 'C:\a', without and with a current
\* directory recorded for drive a: ('=a:' is 'a:\A'), and in the UNC
\* directory '\\a\a\a'.
Hosts ==
  { [platformIsWin32 |-> FALSE, cwd |-> <<"/">>, env |-> EnvTable(<<>>)],
    [platformIsWin32 |-> FALSE, cwd |-> <<"/", "a">>, env |-> EnvTable(<<>>)],
    [platformIsWin32 |-> FALSE, cwd |-> <<"/">>, env |-> NoEnvTable],
    [platformIsWin32 |-> TRUE, cwd |-> <<"C", ":", "\\", "a">>, env |-> EnvTable(<<>>)],
    [platformIsWin32 |-> TRUE, cwd |-> <<"C", ":", "\\", "a">>,
     env |-> EnvTable([k \in {<<"=", "a", ":">>} |-> <<"a", ":", "\\", "A">>])],
    [platformIsWin32 |-> TRUE, cwd |-> <<"\\", "\\", "a", "\\", "a", "\\", "a">>,
     env |-> EnvTable(<<>>)] }

\* a call with the argument lists of argLists, on any host of hosts
InitCall(argLists, hosts) ==
  /\ pc = "call"
  /\ op = ""
  /\ ret = Return(<<>>)
  /\ args \in argLists
  /\ \E h \in hosts :
       /\ platformIsWin32 = h.platformIsWin32
       /\ cwd = h.cwd
       /\ env = h.env

---------------------------------------------------------------------------
(* SpecPath: the one-argument operations on every path of PathInputs.       *)

\* all strings over alphabet of length at most n
Strings(alphabet, n) == UNION {[1..k -> alphabet] : k \in 0..n}

PathAlphabet == {"/", "\\", ".", ":", "C", "a"}

\* an empty prefix, and the two spellings of a UNC root
PathPrefixes == {<<>>, <<"\\", "\\", "a", "\\", "a">>, <<"/", "/", "a", "/", "a">>}

PathInputs == {r \o t : r \in PathPrefixes, t \in Strings(PathAlphabet, MaxPathLen)}

\* the one-argument operations read nothing of the host
InitPath ==
  InitCall({<<Str(p)>> : p \in PathInputs},
           {[platformIsWin32 |-> FALSE, cwd |-> <<"/">>, env |-> EnvTable(<<>>)]})

NextPath == PosNormalize \/ WinNormalize \/ PosParse \/ WinParse

SpecPath == InitPath /\ [][NextPath]_vars


---------------------------------------------------------------------------
(* SpecJoin: join of two paths.                                             *)

JoinAlphabet == {"/", "\\", ".", ":", "a"}

JoinInputs == Strings(JoinAlphabet, MaxJoinLen)

\* the second argument has no colon: a drive is read in the first one only
JoinSecondInputs == Strings(JoinAlphabet \ {":"}, MaxJoinLen)

\* join reads nothing of the host
InitJoin ==
  InitCall({<<Str(a), Str(b)>> : a \in JoinInputs, b \in JoinSecondInputs},
           {[platformIsWin32 |-> FALSE, cwd |-> <<"/">>, env |-> EnvTable(<<>>)]})

NextJoin == PosJoin \/ WinJoin

SpecJoin == InitJoin /\ [][NextJoin]_vars

---------------------------------------------------------------------------
(* SpecPosRelative, SpecWinRelative: relative of two paths, on every host.  *)

PosRelativeAlphabet == {"/", ".", "a", "A"}

PosRelativeInputs == Strings(PosRelativeAlphabet, MaxRelativeLen)

\* posix.relative reads process.cwd() only: the hosts with an empty env table
PosRelativeHosts == {h \in Hosts : h.env = EnvTable(<<>>)}

InitPosRelative ==
  InitCall({<<Str(a), Str(b)>> : a \in PosRelativeInputs, b \in PosRelativeInputs},
           PosRelativeHosts)

NextPosRelative == PosRelative

SpecPosRelative == InitPosRelative /\ [][NextPosRelative]_vars

WinRelativeAlphabet == {"\\", ".", ":", "a", "A"}

\* no prefix, a UNC root on another share than the cwd '\\a\a\a', and '.\'
WinRelativePrefixes ==
  {<<>>, <<"\\", "\\", "a", "\\", "A", "A">>, <<".", "\\">>}

WinRelativeInputs ==
  {r \o t : r \in WinRelativePrefixes,
            t \in Strings(WinRelativeAlphabet, MaxWinRelativeLen)}

InitWinRelative ==
  InitCall({<<Str(a), Str(b)>> : a \in WinRelativeInputs, b \in WinRelativeInputs},
           Hosts)

NextWinRelative == WinRelative

SpecWinRelative == InitWinRelative /\ [][NextWinRelative]_vars

---------------------------------------------------------------------------
(* SpecResolve: resolve of up to MaxArgs arguments, strings or not, on      *)
(* every host.                                                              *)

\* The arguments: the empty string, relative paths, drive-relative and
\* drive-absolute paths, rooted paths, a UNC path, and a number.
ResolveArguments ==
  { Str(<<>>), Str(<<"a">>), Str(<<".", ".">>), Str(<<"a", "/", "a">>),
    Str(<<"a", ":">>), Str(<<"a", ":", "a">>), Str(<<"a", ":", "\\">>),
    Str(<<"A", ":", "\\", "a">>), Str(<<"C", ":", "a">>),
    Str(<<"/", "a">>), Str(<<"\\", "a">>),
    Str(<<"\\", "\\", "a", "\\", "a", "\\", "A">>),
    NotAString }

ArgumentLists(values, n) == UNION {[1..k -> values] : k \in 0..n}

InitResolve == InitCall(ArgumentLists(ResolveArguments, MaxArgs), Hosts)

NextResolve == PosResolve \/ WinResolve

SpecResolve == InitResolve /\ [][NextResolve]_vars

---------------------------------------------------------------------------
(* SpecExtname: extname of every path of PathInputs.                        *)

InitExtname ==
  InitCall({<<Str(p)>> : p \in PathInputs},
           {[platformIsWin32 |-> FALSE, cwd |-> <<"/">>, env |-> EnvTable(<<>>)]})

NextExtname == PosExtname \/ WinExtname

SpecExtname == InitExtname /\ [][NextExtname]_vars

---------------------------------------------------------------------------
(* SpecBasename: basename of a path, without and with a suffix.             *)

BasenameAlphabet == {"/", "\\", ".", ":", "a"}

BasenamePaths == Strings(BasenameAlphabet, MaxBasenameLen)

\* no suffix, a suffix over the same characters, a suffix that is no string
BasenameSuffixes ==
  {<<>>} \cup {<<Str(s)>> : s \in Strings(BasenameAlphabet, MaxSuffixLen)} \cup {<<NotAString>>}

\* basename reads nothing of the host
InitBasename ==
  InitCall({<<Str(p)>> \o s : p \in BasenamePaths, s \in BasenameSuffixes},
           {[platformIsWin32 |-> FALSE, cwd |-> <<"/">>, env |-> EnvTable(<<>>)]})

NextBasename == PosBasename \/ WinBasename

SpecBasename == InitBasename /\ [][NextBasename]_vars

---------------------------------------------------------------------------
(* SpecNamespaced: toNamespacedPath of a path, of another value or of       *)
(* nothing, on every host.                                                  *)

MaxNamespacedLen == 3

NamespacedAlphabet == {"/", "\\", ".", "?", ":", "a"}

\* an empty prefix, a UNC root, and the two namespaced prefixes
NamespacedPrefixes ==
  {<<>>, <<"\\", "\\", "a", "\\", "a">>, <<"\\", "\\", "?", "\\">>,
   <<"\\", "\\", ".", "\\">>}

NamespacedInputs ==
  {r \o t : r \in NamespacedPrefixes, t \in Strings(NamespacedAlphabet, MaxNamespacedLen)}

InitNamespaced ==
  InitCall({<<Str(p)>> : p \in NamespacedInputs} \cup {<<>>, <<NotAString>>}, Hosts)

NextNamespaced == PosToNamespacedPath \/ WinToNamespacedPath

SpecNamespaced == InitNamespaced /\ [][NextNamespaced]_vars

---------------------------------------------------------------------------
(* SpecWinOutput: the Windows operations that build a path, on two paths    *)
(* written with '/', with '\' or with both, on every host.                  *)

MaxWinOutputLen == 2

WinOutputAlphabet == {"/", "\\", ".", ":", "a"}

WinOutputInputs == Strings(WinOutputAlphabet, MaxWinOutputLen)

InitWinOutput ==
  InitCall({<<Str(a), Str(b)>> : a \in WinOutputInputs, b \in WinOutputInputs}, Hosts)

NextWinOutput == WinNormalize \/ WinJoin \/ WinResolve \/ WinRelative

SpecWinOutput == InitWinOutput /\ [][NextWinOutput]_vars

---------------------------------------------------------------------------
(* SpecExports: property access chains on the exported engine objects; args *)
(* holds the names of the properties read, from left to right.              *)

MaxChainLen == 3

PropertyNames == DOMAIN __posix \cup {"posix", "win32"}

PropertyChains == UNION {[1..k -> PropertyNames] : k \in 0..MaxChainLen}

\* the exports read platformIsWin32 only
InitExports ==
  InitCall(PropertyChains,
           {[platformIsWin32 |-> FALSE, cwd |-> <<"/">>, env |-> EnvTable(<<>>)],
            [platformIsWin32 |-> TRUE, cwd |-> <<"C", ":", "\\", "a">>,
             env |-> EnvTable(<<>>)]})

NextExports == ImportPosix \/ ImportWin32 \/ ImportDefault

SpecExports == InitExports /\ [][NextExports]_vars

---------------------------------------------------------------------------
(* SpecNormalizeString: normalizeString on every tail, for both values of   *)
(* allowAboveRoot and both separators.                                      *)

MaxTailLen == 8

TailAlphabet == {"/", "\\", ".", "a"}

\* the tails of up to MaxTailLen characters that lack one of '/', '\' and
\* 'a', and the shorter ones over all four characters
TailInputs ==
  UNION {Strings(TailAlphabet \ {c}, MaxTailLen) : c \in {"/", "\\", "a"}}
    \cup Strings(TailAlphabet, MaxTailLen - 2)

\* normalizeString reads nothing of the host
InitNormalizeString ==
  InitCall({<<Str(t), Bool(b)>> : t \in TailInputs, b \in BOOLEAN},
           {[platformIsWin32 |-> FALSE, cwd |-> <<"/">>, env |-> EnvTable(<<>>)]})

NextNormalizeString == PosNormalizeString \/ WinNormalizeString

SpecNormalizeString == InitNormalizeString /\ [][NextNormalizeString]_vars

---------------------------------------------------------------------------
(* SpecJoinThree: join of three paths.                                      *)

MaxStepLen == 3

\* join reads nothing of the host.  The first argument is every short path
\* and a segment that looks like a drive behind './'; the second is shorter
\* and written with '/'; the third is empty, a separator, a name, '..' or a
\* rooted name.
InitJoinThree ==
  InitCall({<<Str(a), Str(b), Str(c)>> :
              a \in Strings(JoinAlphabet, MaxStepLen) \cup {<<".", "/", "a", ":">>},
              b \in Strings({"/", ".", "a"}, MaxStepLen - 1),
              c \in {<<>>, <<"/">>, <<"\\">>, <<"a">>, <<".", ".">>, <<"/", "a">>}},
           {[platformIsWin32 |-> FALSE, cwd |-> <<"/">>, env |-> EnvTable(<<>>)]})

SpecJoinThree == InitJoinThree /\ [][NextJoin]_vars

---------------------------------------------------------------------------
(* SpecFormat: format of a components object, or of another value.          *)

\* the values of a property: empty, a root, a name, an extension with its
\* dot (also a dot file), a rooted name
FormatValues == {<<>>, <<"/">>, <<"a">>, <<".", "a">>, <<"/", "a">>}

FormatKeys == {"dir", "root", "base", "name", "ext"}

\* every object with some of the five properties set
PathObjects == UNION {[keys -> FormatValues] : keys \in SUBSET FormatKeys}

\* format reads nothing of the host
InitFormat ==
  InitCall({<<Obj(o)>> : o \in PathObjects} \cup {<<>>, <<Str(<<"a">>)>>, <<NotAString>>},
           {[platformIsWin32 |-> FALSE, cwd |-> <<"/">>, env |-> EnvTable(<<>>)]})

NextFormat == PosFormat \/ WinFormat

SpecFormat == InitFormat /\ [][NextFormat]_vars

---------------------------------------------------------------------------
(* Properties of the one-argument operations (SpecPath).                    *)

\* the call of operation name has returned a value
Returned(name) == pc = "return" /\ op = name /\ ret.kind = "return"

\* the string argument k of the call
ArgStr(k) == args[k].str

\* C1: POSIX normalize is idempotent: normalizing the result of
\* posix.normalize(p) again gives the same string, for every p.
C1_PosNormalizeIdempotent ==
  Returned("posix.normalize") => posNormalize(ret.value) = ret.value

\* a call that removed a '..' segment and returned a path of several characters
C1_Witness ==
  /\ Returned("posix.normalize")
  /\ ArgStr(1) = <<"a", "/", ".", ".", "/">>
  /\ ret.value = <<".", "/">>

\* C2: Windows normalize is idempotent: normalizing the result of
\* win32.normalize(p) again gives the same string, for every p.
C2_WinNormalizeIdempotent ==
  Returned("win32.normalize") => winNormalize(ret.value) = ret.value


\* c is a separator of the dialect (win: the Windows dialect)
IsSep(win, c) == IF win THEN isPathSeparator(c) ELSE isPosixPathSeparator(c)

\* no two separators stand next to each other in p
NoAdjacentSeparators(p, win) ==
  \A k \in 1..(Len(p) - 1) : ~(IsSep(win, p[k]) /\ IsSep(win, p[k + 1]))

\* p[a..b] is a whole segment of p: it holds no separator and is delimited
\* by separators, by the ends of p, or by the colon of a drive prefix
IsSegment(p, a, b, win, drive) ==
  /\ 1 <= a /\ a <= b /\ b <= Len(p)
  /\ \A k \in a..b : ~IsSep(win, p[k])
  /\ (a = 1 \/ IsSep(win, p[a - 1]) \/ (drive /\ a = 3))
  /\ (b = Len(p) \/ IsSep(win, p[b + 1]))

\* p has a '.' or a '..' segment
HasDotSegment(p, win, drive) ==
  \E a \in 1..Len(p) : \E b \in a..(a + 1) :
    /\ IsSegment(p, a, b, win, drive)
    /\ \A k \in a..b : p[k] = CHAR_DOT

\* p starts with a drive letter and a colon
HasDrivePrefix(p) ==
  Len(p) >= 2 /\ isWindowsDeviceRoot(p[1]) /\ p[2] = CHAR_COLON

\* The paths the round trip is stated for, as the claim words it.
PosPlain(p) ==
  NoAdjacentSeparators(p, FALSE)
  /\ ~HasDotSegment(p, FALSE, FALSE)

WinPlain(p) ==
  NoAdjacentSeparators(p, TRUE)
  /\ ~HasDotSegment(p, TRUE, HasDrivePrefix(p))

\* C3 as stated: for every p without redundant separators and without '.'
\* or '..' segments, format(parse(p)) equals normalize(p), in each dialect.
C3_RoundTripAsStated ==
  /\ Returned("posix.parse") /\ PosPlain(ArgStr(1))
       => posFormat(ret.value) = posNormalize(ArgStr(1))
  /\ Returned("win32.parse") /\ WinPlain(ArgStr(1))
       => winFormat(ret.value) = winNormalize(ArgStr(1))

\* the last character of p is a separator that is not part of the root
\* (root being the root that parse reports)
TrailingSeparator(p, root, win) ==
  Len(p) > Len(root) /\ IsSep(win, p[Len(p)])

\* The POSIX paths of the amended round trip: non-empty, no '.' or '..'
\* segment, no redundant separator, no separator after the last segment.
C3_PosCase ==
  /\ Returned("posix.parse")
  /\ ArgStr(1) # <<>>
  /\ PosPlain(ArgStr(1))
  /\ ~TrailingSeparator(ArgStr(1), ret.value.root, FALSE)

\* The Windows paths of the amended round trip: as for POSIX, and written
\* with '\' only (the two '\' that start a UNC root are not redundant),
\* neither a bare drive 'C:' nor a bare UNC root without a '\' after it.
C3_WinCase ==
  /\ Returned("win32.parse")
  /\ ArgStr(1) # <<>>
  /\ \A k \in 1..Len(ArgStr(1)) : ArgStr(1)[k] # CHAR_FORWARD_SLASH
  /\ NoAdjacentSeparators(SubSeq(ArgStr(1), 2, Len(ArgStr(1))), TRUE)
  /\ ~HasDotSegment(ArgStr(1), TRUE, HasDrivePrefix(ArgStr(1)))
  /\ ~TrailingSeparator(ArgStr(1), ret.value.root, TRUE)
  /\ ~(HasDrivePrefix(ArgStr(1)) /\ Len(ArgStr(1)) = 2)
  /\ ~(/\ Len(ret.value.root) > 1
       /\ ret.value.root = ArgStr(1)
       /\ ArgStr(1)[1] = CHAR_BACKWARD_SLASH
       /\ ArgStr(1)[Len(ArgStr(1))] # CHAR_BACKWARD_SLASH)

\* C3 amended: format(parse(p)) equals normalize(p) for every non-empty p
\* without '.' or '..' segments, without redundant separators and without
\* a separator after the last segment; in the Windows dialect p is moreover
\* written with '\' only, and is neither a bare drive 'C:' nor a UNC root
\* '\\server\share' without a separator after it.
C3_RoundTrip ==
  /\ C3_PosCase => posFormat(ret.value) = posNormalize(ArgStr(1))
  /\ C3_WinCase => winFormat(ret.value) = winNormalize(ArgStr(1))

\* a Windows path with a UNC root and a base with an extension
C3_Witness ==
  /\ C3_WinCase
  /\ ArgStr(1) = <<"\\", "\\", "a", "\\", "a", "\\", "a", ".", "C">>
  /\ ret.value.root = <<"\\", "\\", "a", "\\", "a", "\\">>
  /\ ret.value.ext = <<".", "C">>

\* C9: for every p, parse(p) has base = name + ext, in each dialect.
C9_BaseIsNamePlusExt ==
  (Returned("posix.parse") \/ Returned("win32.parse"))
    => ret.value.base = ret.value.name \o ret.value.ext

\* a parse of an absolute path that found a name and an extension
C9_Witness ==
  /\ Returned("posix.parse")
  /\ ArgStr(1) = <<"/", "a", ".", "C">>
  /\ ret.value.name = <<"a">>
  /\ ret.value.ext = <<".", "C">>

\* prefix is a prefix of s
IsPrefix(prefix, s) ==
  Len(prefix) <= Len(s) /\ SubSeq(s, 1, Len(prefix)) = prefix

\* C10: for every p, parse(p).dir is parse(p).root, or else is the root
\* followed by the intermediate segments and does not end with a separator.
C10_DirIsRootOrUnterminated ==
  /\ Returned("posix.parse") =>
       \/ ret.value.dir = ret.value.root
       \/ /\ IsPrefix(ret.value.root, ret.value.dir)
          /\ ~isPosixPathSeparator(ret.value.dir[Len(ret.value.dir)])
  /\ Returned("win32.parse") =>
       \/ ret.value.dir = ret.value.root
       \/ /\ IsPrefix(ret.value.root, ret.value.dir)
          /\ ~isPathSeparator(ret.value.dir[Len(ret.value.dir)])

---------------------------------------------------------------------------
(* Properties of join (SpecJoin).                                           *)

\* the index after the segment of p that starts at index k (1-based)
RECURSIVE SegmentEnd(_, _, _)
SegmentEnd(p, win, k) ==
  IF k <= Len(p) /\ ~IsSep(win, p[k]) THEN SegmentEnd(p, win, k + 1) ELSE k

\* the segments of p: its maximal runs of characters that are not separators
RECURSIVE Segments(_, _)
Segments(p, win) ==
  IF Len(p) = 0 THEN <<>>
  ELSE IF IsSep(win, p[1]) THEN Segments(Tail(p), win)
  ELSE LET e == SegmentEnd(p, win, 1)
       IN  <<SubSeq(p, 1, e - 1)>> \o Segments(SubSeq(p, e, Len(p)), win)

\* what a POSIX path denotes: its root ('/' or none) and its segments
PosDenotation(p) ==
  [root |-> IF posIsAbsolute(p) THEN <<"/">> ELSE <<>>,
   segments |-> Segments(p, FALSE)]

\* what a Windows path denotes: its root (a drive or a UNC root, with '\' if
\* the path is absolute) and the segments after the root
WinDenotation(p) ==
  LET r == winResolveRoot(p)
  IN  [root |-> r.device \o (IF r.isAbsolute THEN <<"\\">> ELSE <<>>),
       segments |-> Segments(sliceFrom(p, r.rootEnd), TRUE)]

\* a call of join on two non-empty strings has returned
JoinedTwo(name) ==
  Returned(name) /\ Len(args) = 2 /\ ArgStr(1) # <<>> /\ ArgStr(2) # <<>>

\* C4 as stated: for all non-empty a and b, join(a, b) denotes the same root
\* and the same segments as normalize(a + sep + b), in each dialect.
C4_JoinAsStated ==
  /\ JoinedTwo("posix.join") =>
       PosDenotation(ret.value)
         = PosDenotation(posNormalize(ArgStr(1) \o <<"/">> \o ArgStr(2)))
  /\ JoinedTwo("win32.join") =>
       WinDenotation(ret.value)
         = WinDenotation(winNormalize(ArgStr(1) \o <<"\\">> \o ArgStr(2)))

\* a is one separator, and b starts with a segment that another segment
\* follows: a + '\' + b then reads as the UNC root '\\server\share'
ReadsAsUncRoot(a, b) ==
  /\ Len(a) = 1
  /\ isPathSeparator(a[1])
  /\ ~isPathSeparator(b[1])
  /\ Len(Segments(b, TRUE)) >= 2

\* C4 amended: for all non-empty a and b, join(a, b) denotes the same root
\* and the same segments as normalize(a + sep + b); in the Windows dialect
\* unless a is a single separator and b starts with two segments (there
\* normalize reads a UNC root and join a path rooted at '\').
C4_Join ==
  /\ JoinedTwo("posix.join") =>
       PosDenotation(ret.value)
         = PosDenotation(posNormalize(ArgStr(1) \o <<"/">> \o ArgStr(2)))
  /\ JoinedTwo("win32.join") /\ ~ReadsAsUncRoot(ArgStr(1), ArgStr(2)) =>
       WinDenotation(ret.value)
         = WinDenotation(winNormalize(ArgStr(1) \o <<"\\">> \o ArgStr(2)))

\* a Windows join where a ends and b starts with a separator, and a '..'
\* of b removes the segment of a
C4_Witness ==
  /\ JoinedTwo("win32.join")
  /\ ArgStr(1) = <<"\\", "a", "/">>
  /\ ArgStr(2) = <<"\\", ".", ".">>
  /\ ret.value = <<"\\">>

---------------------------------------------------------------------------
(* Properties of relative (SpecPosRelative, SpecWinRelative).               *)

\* C5: for all strings a and b and any absolute current working directory,
\* posix.resolve(posix.normalize(posix.join(a, posix.relative(a, b))))
\* equals posix.resolve(b).
C5_PosRelativeComposes ==
  Returned("posix.relative") =>
    LET joined == posJoin(<<args[1], Str(ret.value)>>)
    IN  /\ joined.kind = "return"
        /\ posResolve(<<Str(posNormalize(joined.value))>>) = posResolve(<<args[2]>>)

\* in the directory '/a', from 'a/a' to '/A': three '..' lead up to the root
C5_Witness ==
  /\ Returned("posix.relative")
  /\ cwd = <<"/", "a">>
  /\ ArgStr(1) = <<"a", "/", "a">>
  /\ ArgStr(2) = <<"/", "A">>
  /\ ret.value = <<".", ".", "/", ".", ".", "/", ".", ".", "/", "A">>

\* C6: for all strings a and b,
\* win32.resolve(win32.normalize(win32.join(a, win32.relative(a, b))))
\* equals win32.resolve(b).
C6_WinRelativeComposes ==
  (pc = "return" /\ op = "win32.relative") =>
    /\ ret.kind = "return"
    /\ LET joined == winJoin(<<args[1], Str(ret.value)>>)
       IN  /\ joined.kind = "return"
           /\ winResolve(<<Str(winNormalize(joined.value))>>) = winResolve(<<args[2]>>)

---------------------------------------------------------------------------
(* Properties of resolve (SpecResolve).                                     *)

\* every argument of the call is a string
AllStrings == \A k \in 1..Len(args) : validateString(args[k])

\* C7: for every list of string arguments and every absolute current
\* working directory, resolve returns a path that isAbsolute accepts, in
\* each dialect and whatever the host platform.
C7_ResolveIsAbsolute ==
  /\ (pc = "return" /\ op = "posix.resolve" /\ AllStrings) =>
       ret.kind = "return" /\ posIsAbsolute(ret.value)
  /\ (pc = "return" /\ op = "win32.resolve" /\ AllStrings) =>
       ret.kind = "return" /\ winIsAbsolute(ret.value)

\* C8: if any argument is not a string, resolve throws, in each dialect,
\* whatever the position of that argument and whatever the others are.
C8_ResolveRejectsNonStrings ==
  (pc = "return" /\ op \in {"posix.resolve", "win32.resolve"} /\ ~AllStrings) =>
    ret.kind = "throw"

---------------------------------------------------------------------------
(* Properties of format (SpecFormat).                                       *)

\* a call of format on a components object has returned
Formatted(name) == Returned(name) /\ args[1].type = "object"

\* the property key of the object o, '' if it is absent
FieldOr(o, key) == IF key \in DOMAIN o THEN o[key] ELSE <<>>

\* D: dir, or root when dir is absent (or empty)
FormatD(o) == IF FieldOr(o, "dir") # <<>> THEN o["dir"] ELSE FieldOr(o, "root")

\* D + S + B, S omitted when D is the root, B alone when D is empty
Composed(o, sep, B) ==
  IF FormatD(o) = <<>> THEN B
  ELSE IF FormatD(o) = FieldOr(o, "root") THEN FormatD(o) \o B
  ELSE FormatD(o) \o <<sep>> \o B

\* B as the claim states it: base, or name + ext when base is absent
PlainBase(o) ==
  IF FieldOr(o, "base") # <<>> THEN o["base"] ELSE FieldOr(o, "name") \o FieldOr(o, "ext")

\* B with the dot of the extension: base, or name + ext, with a '.' put
\* before an ext that is not empty and does not start with '.'
DottedBase(o) ==
  IF FieldOr(o, "base") # <<>> THEN o["base"]
  ELSE FieldOr(o, "name")
       \o (IF FieldOr(o, "ext") # <<>> /\ FieldOr(o, "ext")[1] # "." THEN <<".">> ELSE <<>>)
       \o FieldOr(o, "ext")

\* C11 as stated: format returns D + S + B with B = base, or the plain
\* concatenation name + ext, for every ext, with or without a leading dot.
C11_FormatAsStated ==
  /\ Formatted("posix.format") => ret.value = Composed(args[1].fields, "/", PlainBase(args[1].fields))
  /\ Formatted("win32.format") => ret.value = Composed(args[1].fields, "\\", PlainBase(args[1].fields))

\* C11 amended: format returns D + S + B where D is dir (or root when dir is
\* absent or empty), S is the separator, omitted when D is the root, and B
\* is base, or when base is absent or empty name + ext with a '.' inserted
\* before an ext that is not empty and has no leading dot; B alone when D is
\* empty.
C11_Format ==
  /\ Formatted("posix.format") => ret.value = Composed(args[1].fields, "/", DottedBase(args[1].fields))
  /\ Formatted("win32.format") => ret.value = Composed(args[1].fields, "\\", DottedBase(args[1].fields))

\* a Windows format with a dir that is not the root and an ext without dot
C11_Witness ==
  /\ Formatted("win32.format")
  /\ args[1].fields = [k \in {"dir", "root", "name", "ext"} |->
                         CASE k = "dir" -> <<"/", "a">>
                           [] k = "root" -> <<"/">>
                           [] k = "name" -> <<"a">>
                           [] k = "ext" -> <<"a">>]
  /\ ret.value = <<"/", "a", "\\", "a", ".", "a">>

---------------------------------------------------------------------------
(* Properties of extname (SpecExtname).                                     *)

\* the segments of p after a drive letter prefix (Windows) or of p (POSIX)
PathSegments(p, win) ==
  IF win THEN Segments(sliceFrom(p, driveLetterEnd(p)), TRUE) ELSE Segments(p, FALSE)

\* the last segment of p consists of one or two '.' characters
DotOrDotDotLast(p, win) ==
  LET segs == PathSegments(p, win) IN
  /\ Len(segs) > 0
  /\ segs[Len(segs)] \in {<<".">>, <<".", ".">>}

\* C12, for the dot-only segments '.' and '..': for every p whose last
\* segment is '.' or '..', parse(p).ext and extname(p) are '', in each
\* dialect.
C12_NoExtForDots ==
  /\ Returned("posix.extname") /\ DotOrDotDotLast(ArgStr(1), FALSE) =>
       ret.value = <<>> /\ posParse(ArgStr(1)).ext = <<>>
  /\ Returned("win32.extname") /\ DotOrDotDotLast(ArgStr(1), TRUE) =>
       ret.value = <<>> /\ winParse(ArgStr(1)).ext = <<>>

---------------------------------------------------------------------------
(* Properties of basename (SpecBasename).                                   *)

\* a call of basename on a path and a non-empty string suffix has returned
SuffixCall(name) ==
  /\ Returned(name)
  /\ Len(args) = 2
  /\ validateString(args[2])
  /\ ArgStr(2) # <<>>

\* s is a suffix of b
EndsWith(b, s) == Len(s) <= Len(b) /\ SubSeq(b, Len(b) - Len(s) + 1, Len(b)) = s

\* b with its trailing s removed when b ends with s and is longer than s,
\* else b
WithoutSuffix(b, s) ==
  IF EndsWith(b, s) /\ Len(b) > Len(s) THEN SubSeq(b, 1, Len(b) - Len(s)) ELSE b

\* C13, for p different from s: for every path p and every non-empty string
\* s, basename(p, s) is basename(p) with its trailing s removed when
\* basename(p) ends with s and is longer than s, and is basename(p) in every
\* other case, in each dialect.
C13_BasenameWithSuffix ==
  /\ SuffixCall("posix.basename") /\ ArgStr(1) # ArgStr(2) =>
       ret.value = WithoutSuffix(posBasename(args[1], Undefined).value, ArgStr(2))
  /\ SuffixCall("win32.basename") /\ ArgStr(1) # ArgStr(2) =>
       ret.value = WithoutSuffix(winBasename(args[1], Undefined).value, ArgStr(2))

---------------------------------------------------------------------------
(* Further properties of resolve (SpecResolve).                             *)

\* C14: on every host, the Node-like ones and the browser shim, an operation
\* called with string arguments returns a value and does not throw; here
\* for resolve, with no argument, empty strings, roots and drive-relative
\* paths among the arguments.
C14_NoFailureOnStrings ==
  (pc = "return" /\ AllStrings) => ret.kind = "return"

\* the arguments of the call that name a device (a drive letter and ':', or
\* a UNC prefix \\server\share)
NamesDevice(a) == validateString(a) /\ Len(winResolveRoot(a.str).device) > 0

DeviceOf(a) == toLowerCase(winResolveRoot(a.str).device)

RightmostDevice ==
  LET k == CHOOSE k \in 1..Len(args) :
             /\ NamesDevice(args[k])
             /\ \A j \in (k + 1)..Len(args) : ~NamesDevice(args[j])
  IN  DeviceOf(args[k])

OnRightmostDevice(a) == NamesDevice(a) => DeviceOf(a) = RightmostDevice

\* C15: where win32.resolve returns for string arguments of which one names
\* a device, the device of the result is, without regard to case, the device
\* of the rightmost such argument, and the result is the one resolve gives
\* for the list without the arguments that name another device.
C15_DeviceOfRightmost ==
  (/\ Returned("win32.resolve")
   /\ AllStrings
   /\ \E k \in 1..Len(args) : NamesDevice(args[k]))
  => /\ toLowerCase(winResolveRoot(ret.value).device) = RightmostDevice
     /\ winResolve(SelectSeq(args, OnRightmostDevice)) = ret

\* resolve returned for two arguments that name different devices
C15_Witness ==
  /\ Returned("win32.resolve")
  /\ AllStrings
  /\ \E j, k \in 1..Len(args) :
       /\ NamesDevice(args[j])
       /\ NamesDevice(args[k])
       /\ DeviceOf(args[j]) # DeviceOf(args[k])

---------------------------------------------------------------------------
(* Properties of toNamespacedPath (SpecNamespaced).                         *)

UncRooted(r) ==
  /\ Len(r) >= 3
  /\ r[1] = "\\"
  /\ r[2] = "\\"
  /\ r[3] \notin {"?", "."}

DriveRooted(r) ==
  /\ Len(r) >= 3
  /\ isWindowsDeviceRoot(r[1])
  /\ r[2] = ":"
  /\ r[3] = "\\"

\* the value the claim says win32.toNamespacedPath(x) returns
NamespacedAsStated(x) ==
  LET r == winResolve(<<x>>)
      resolves == validateString(x) /\ Len(x.str) > 0 /\ r.kind = "return"
  IN  IF resolves /\ UncRooted(r.value)
      THEN Str(<<"\\", "\\", "?", "\\", "U", "N", "C", "\\">>
               \o SubSeq(r.value, 3, Len(r.value)))
      ELSE IF resolves /\ DriveRooted(r.value)
      THEN Str(<<"\\", "\\", "?", "\\">> \o r.value)
      ELSE x

\* C16: win32.toNamespacedPath(x) returns '\\?\UNC\' and the resolved path
\* without its two leading backslashes if resolve(x) is UNC-rooted, '\\?\'
\* and the resolved path if it is drive-rooted, and for every other x
\* returns x unchanged without an error; posix.toNamespacedPath(x) returns x.
C16_ToNamespacedPath ==
  /\ (pc = "return" /\ op = "win32.toNamespacedPath")
       => (ret.kind = "return" /\ ret.value = NamespacedAsStated(Arg(args, 1)))
  /\ (pc = "return" /\ op = "posix.toNamespacedPath")
       => (ret.kind = "return" /\ ret.value = Arg(args, 1))

---------------------------------------------------------------------------
(* Further properties of win32.relative (SpecWinRelative).                  *)

\* the paths that differ from s in letter case at most
CaseVariants(s) == {v \in WinRelativeInputs : toLowerCase(v) = toLowerCase(s)}

\* the elements of the sequence segs
Elements(segs) == {segs[k] : k \in 1..Len(segs)}

\* relative(from, to) is the same for every spelling of from
SameForEveryCase ==
  \A v \in CaseVariants(ArgStr(1)) :
    LET r == winRelative(Str(v), args[2])
    IN  r.kind = "return" /\ r.value = ret.value

\* relative is '' if the resolved paths differ in letter case only
EmptyIfSameButCase ==
  LET f == winResolve(<<args[1]>>)
      t == winResolve(<<args[2]>>)
  IN  (/\ f.kind = "return"
       /\ t.kind = "return"
       /\ toLowerCase(f.value) = toLowerCase(t.value)) => ret.value = <<>>

\* every segment of the result but '..' is a segment of resolve(to)
SegmentsOfResolvedTo ==
  LET t == winResolve(<<args[2]>>)
  IN  t.kind = "return" =>
        Elements(Segments(ret.value, TRUE)) \ {<<".", ".">>}
          \subseteq Elements(Segments(t.value, TRUE))

\* C17: where win32.relative(from, to) returns, it returns the same for
\* every spelling of from in upper and lower case, returns '' if
\* resolve(from) and resolve(to) differ in letter case only, and every
\* segment of its result other than '..' is a segment of resolve(to),
\* spelled as there.
C17_WinRelativeCase ==
  Returned("win32.relative") =>
    /\ SameForEveryCase
    /\ EmptyIfSameButCase
    /\ SegmentsOfResolvedTo

---------------------------------------------------------------------------
(* Properties of the Windows operations that build a path (SpecWinOutput). *)

\* the characters of the string s
Chars(s) == {s[k] : k \in 1..Len(s)}

WinBuilders == {"win32.normalize", "win32.join", "win32.resolve", "win32.relative"}

\* C18: the string that win32.normalize, win32.join, win32.resolve or
\* win32.relative returns contains no '/', whatever separators its
\* arguments and the cwd of the host are written with.
C18_NoForwardSlash ==
  (pc = "return" /\ op \in WinBuilders /\ ret.kind = "return")
    => "/" \notin Chars(ret.value)

\* win32.join returned a path with a separator for one argument written
\* with '/' and one written with '\'
C18_Witness ==
  /\ Returned("win32.join")
  /\ "/" \in Chars(ArgStr(1))
  /\ "\\" \in Chars(ArgStr(2))
  /\ "\\" \in Chars(ret.value)

---------------------------------------------------------------------------
(* Further properties of posix.normalize (SpecPath).                        *)

StartsWithSlash(s) == Len(s) > 0 /\ s[1] = "/"

EndsWithSlash(s) == Len(s) > 0 /\ s[Len(s)] = "/"

\* C19: posix.normalize('') is '.'; for a non-empty p, posix.normalize(p)
\* starts with '/' exactly if p does, ends with '/' if p does, and is '/'
\* if p is absolute and nothing is left of its segments.
C19_LeadingAndTrailing ==
  Returned("posix.normalize") =>
    IF ArgStr(1) = <<>> THEN ret.value = <<".">>
    ELSE /\ StartsWithSlash(ret.value) <=> StartsWithSlash(ArgStr(1))
         /\ EndsWithSlash(ArgStr(1)) => EndsWithSlash(ret.value)
         /\ (StartsWithSlash(ArgStr(1)) /\ Segments(ret.value, FALSE) = <<>>)
              => ret.value = <<"/">>

\* a relative path with a trailing separator, of which a name is left
C19_Witness ==
  /\ Returned("posix.normalize")
  /\ ArgStr(1) = <<".", "/", "a", "/", "/">>
  /\ ret.value = <<"a", "/">>

---------------------------------------------------------------------------
(* Properties of the exported engine objects (SpecExports).                 *)

\* the engine that a chain of '.posix' and '.win32' on the engine named
\* root ends at, if every reference is the engine itself
EngineAt(root, keys) ==
  LET last == IF Len(keys) = 0 THEN root ELSE keys[Len(keys)]
  IN  IF last = "posix" THEN posix ELSE win32

\* C20: read from the exported posix or win32 engine, every chain of
\* '.posix' and '.win32' references is defined and ends at the POSIX engine
\* itself if its last name is posix and at the Windows engine itself if
\* its last name is win32, with all operations, constants and references.
C20_SelfAndCrossReferences ==
  (/\ pc = "return"
   /\ op \in {"posix", "win32"}
   /\ \A k \in 1..Len(args) : args[k] \in {"posix", "win32"})
  => /\ ret.kind = "return"
     /\ ret.value = EngineAt(op, args)

---------------------------------------------------------------------------
(* Properties of normalizeString (SpecNormalizeString).                     *)

\* the stack algorithm on the segments segs, from left to right, with the
\* segments kept so far in stack
RECURSIVE StackOf(_, _, _)
StackOf(segs, allowAboveRoot, stack) ==
  IF Len(segs) = 0 THEN stack
  ELSE LET seg == Head(segs)
           top == IF Len(stack) = 0 THEN <<>> ELSE stack[Len(stack)]
       IN  IF seg = <<".">> THEN StackOf(Tail(segs), allowAboveRoot, stack)
           ELSE IF seg # <<".", ".">>
           THEN StackOf(Tail(segs), allowAboveRoot, Append(stack, seg))
           ELSE IF Len(stack) > 0 /\ top # <<".", ".">>
           THEN StackOf(Tail(segs), allowAboveRoot, SubSeq(stack, 1, Len(stack) - 1))
           ELSE IF allowAboveRoot
           THEN StackOf(Tail(segs), allowAboveRoot, Append(stack, seg))
           ELSE StackOf(Tail(segs), allowAboveRoot, stack)

\* the segments segs joined with sep
RECURSIVE JoinedWith(_, _)
JoinedWith(segs, sep) ==
  IF Len(segs) = 0 THEN <<>>
  ELSE IF Len(segs) = 1 THEN segs[1]
  ELSE segs[1] \o <<sep>> \o JoinedWith(Tail(segs), sep)

\* what the stack algorithm returns for the tail p
Reference(p, allowAboveRoot, win) ==
  JoinedWith(StackOf(Segments(p, win), allowAboveRoot, <<>>),
             IF win THEN "\\" ELSE "/")

\* C21: normalizeString returns what the stack algorithm returns: the
\* segments of the tail without the empty and '.' ones, each '..' removing
\* the real segment before it or, where there is none, kept if
\* allowAboveRoot and dropped otherwise, joined with the separator.
C21_StackAlgorithm ==
  /\ Returned("normalizeString /")
       => ret.value = Reference(ArgStr(1), args[2].value, FALSE)
  /\ Returned("normalizeString \\")
       => ret.value = Reference(ArgStr(1), args[2].value, TRUE)

\* a '..' that removes the last of three segments
C21_Witness ==
  /\ Returned("normalizeString \\")
  /\ ArgStr(1) = <<"a", "\\", "a", "\\", "a", "\\", ".", ".">>
  /\ ret.value = <<"a", "\\", "a">>

---------------------------------------------------------------------------
(* Further properties of posix.relative (SpecPosRelative).                  *)

\* the length of the longest common leading run of the segment lists F, T
RECURSIVE CommonRun(_, _)
CommonRun(F, T) ==
  IF Len(F) = 0 \/ Len(T) = 0 \/ Head(F) # Head(T) THEN 0
  ELSE 1 + CommonRun(Tail(F), Tail(T))

\* one '..' for every segment of F after the first k, then the segments of
\* T after the first k
UpAndDown(F, T, k) ==
  [j \in 1..(Len(F) - k) |-> <<".", ".">>] \o SubSeq(T, k + 1, Len(T))

\* C22: with F and T the segments of posix.resolve(from) and
\* posix.resolve(to) and k the length of their longest common leading run,
\* posix.relative(from, to) is '' if F = T and otherwise |F| - k segments
\* '..' followed by the segments of T after the first k, joined with '/'.
C22_RelativeBySegments ==
  Returned("posix.relative") =>
    LET F == Segments(posResolve(<<args[1]>>).value, FALSE)
        T == Segments(posResolve(<<args[2]>>).value, FALSE)
    IN  ret.value = IF F = T THEN <<>>
                    ELSE JoinedWith(UpAndDown(F, T, CommonRun(F, T)), "/")

\* from '/a/a' to '/a/A.': the common 'a' is kept, one '..' and 'A.' follow
C22_Witness ==
  /\ Returned("posix.relative")
  /\ cwd = <<"/", "a">>
  /\ ArgStr(1) = <<"a">>
  /\ ArgStr(2) = <<"A", ".">>
  /\ ret.value = <<".", ".", "/", "A", ".">>

---------------------------------------------------------------------------
(* Further properties of win32.join (SpecJoin).                             *)

\* the arguments of the call that are not empty, as strings
NonEmptyArgs == SelectSeq([k \in 1..Len(args) |-> args[k].str], LAMBDA a : Len(a) > 0)

\* s starts with exactly two separators and a character that is none
StartsLikeUnc(s) ==
  /\ Len(s) >= 3
  /\ isPathSeparator(s[1])
  /\ isPathSeparator(s[2])
  /\ ~isPathSeparator(s[3])

\* the number of separators that s starts with
RECURSIVE LeadingSeparators(_)
LeadingSeparators(s) ==
  IF Len(s) > 0 /\ isPathSeparator(s[1]) THEN 1 + LeadingSeparators(Tail(s)) ELSE 0

\* C23: win32.join returns a path that starts with two separators only if
\* its first non-empty argument starts with exactly two separators and a
\* character that is none; otherwise two or more separators at the start
\* of the arguments joined with '\' become one '\' before normalize.
C23_JoinAndUncRoots ==
  (Returned("win32.join") /\ Len(NonEmptyArgs) > 0) =>
    LET joined == JoinedWith(NonEmptyArgs, "\\")
        n == LeadingSeparators(joined)
    IN  /\ LeadingSeparators(ret.value) >= 2 => StartsLikeUnc(NonEmptyArgs[1])
        /\ ~StartsLikeUnc(NonEmptyArgs[1]) =>
              ret.value = winNormalize(IF n >= 2
                                       THEN <<"\\">> \o SubSeq(joined, n + 1, Len(joined))
                                       ELSE joined)

\* a join whose arguments come together as three separators, which become one
C23_Witness ==
  /\ Returned("win32.join")
  /\ ArgStr(1) = <<"/">>
  /\ ArgStr(2) = <<"/", "a", "\\">>
  /\ ret.value = <<"\\", "a", "\\">>

---------------------------------------------------------------------------
(* The drive-specific cwd of win32.resolve (SpecResolve).                   *)

\* the arguments that take part: the non-empty ones on the rightmost device
TakingPart ==
  SelectSeq(args, LAMBDA a : Len(a.str) > 0 /\ OnRightmostDevice(a))

\* the arguments determine a drive but no absolute path
DriveButNotAbsolute ==
  /\ AllStrings
  /\ \E k \in 1..Len(args) : NamesDevice(args[k])
  /\ Len(RightmostDevice) = 2
  /\ \A k \in 1..Len(TakingPart) : ~winResolveRoot(TakingPart[k].str).isAbsolute

\* the drive as the rightmost argument that names it spells it
DriveAsSpelled ==
  LET k == CHOOSE k \in 1..Len(TakingPart) :
             /\ NamesDevice(TakingPart[k])
             /\ \A j \in (k + 1)..Len(TakingPart) : ~NamesDevice(TakingPart[j])
  IN  winResolveRoot(TakingPart[k].str).device

\* the relative tail of the arguments: what follows their drive prefixes
RelativeTail ==
  JoinedWith([k \in 1..Len(TakingPart) |->
                sliceFrom(TakingPart[k].str, winResolveRoot(TakingPart[k].str).rootEnd)],
             "\\")

\* the cwd found for the drive D: the entry '=D:' of the environment if
\* there is one, else the cwd of the process; none without an environment
CwdFound(D) ==
  LET names == {k \in DOMAIN env.table :
                  IF platformIsWin32 THEN toLowerCase(k) = toLowerCase(<<"=">> \o D)
                  ELSE k = <<"=">> \o D}
  IN  IF ~env.defined THEN <<>>
      ELSE IF names # {} THEN env.table[CHOOSE k \in names : TRUE]
      ELSE cwd

PointsToDrive(path, D) ==
  Len(path) >= 2 /\ toLowerCase(SubSeq(path, 1, 2)) = toLowerCase(D)

\* C24: where the arguments of win32.resolve determine a drive D but no
\* absolute path, the result is resolved against the cwd found for D if
\* that cwd points to drive D, and is D, '\' and the normalized relative
\* tail alone if no cwd is found or the cwd found does not point to D.
C24_DriveCwdFallback ==
  (pc = "return" /\ op = "win32.resolve" /\ DriveButNotAbsolute) =>
    /\ ret.kind = "return"
    /\ ret.value =
         IF PointsToDrive(CwdFound(DriveAsSpelled), DriveAsSpelled)
         THEN winResolve(<<Str(CwdFound(DriveAsSpelled))>> \o TakingPart).value
         ELSE DriveAsSpelled \o <<"\\">> \o normalizeString(RelativeTail, FALSE, "\\")

---------------------------------------------------------------------------
(* parse and the single-field operations (SpecPath).                        *)

\* parse(p).base is basename(p), in the POSIX dialect
PosBaseIsBasename == ret.value.base = posBasename(args[1], Undefined).value

\* parse(p).ext is extname(p), in the POSIX dialect
PosExtIsExtname == ret.value.ext = posExtname(ArgStr(1))

WinBaseIsBasename == ret.value.base = winBasename(args[1], Undefined).value

WinExtIsExtname == ret.value.ext = winExtname(ArgStr(1))

\* C25: in each dialect, for every string p, parse(p).base is basename(p)
\* and parse(p).ext is extname(p).
C25_ParseAgreesWithFields ==
  /\ Returned("posix.parse") => (PosBaseIsBasename /\ PosExtIsExtname)
  /\ Returned("win32.parse") => (WinBaseIsBasename /\ WinExtIsExtname)

---------------------------------------------------------------------------
(* win32.normalize and absoluteness (SpecPath).                             *)

\* C26: for every string p, win32.normalize(p) is absolute exactly if p is,
\* and if p is relative and has no drive prefix, win32.normalize(p) has no
\* drive prefix either.
C26_NormalizeKeepsAbsoluteness ==
  Returned("win32.normalize") =>
    /\ winIsAbsolute(ret.value) = winIsAbsolute(ArgStr(1))
    /\ (~winIsAbsolute(ArgStr(1)) /\ ~HasDrivePrefix(ArgStr(1)))
         => ~HasDrivePrefix(ret.value)

---------------------------------------------------------------------------
(* join applied stepwise (SpecJoinThree).                                   *)

\* join(join(a, b), c) for the three arguments of the call
PosStepwise == posJoin(<<Str(posJoin(<<args[1], args[2]>>).value), args[3]>>)

WinStepwise == winJoin(<<Str(winJoin(<<args[1], args[2]>>).value), args[3]>>)

\* C27 as stated: in each dialect, join(join(a, b), c) is join(a, b, c) for
\* all strings a, b and c, empty strings included.
C27_StepwiseAsStated ==
  /\ Returned("posix.join") => PosStepwise = ret
  /\ Returned("win32.join") => WinStepwise = ret

====
